---- MODULE Spec2Model ----
(***************************************************************************)
(* A model of fairyfly_therm/writer.py: the translation of a building      *)
(* model into an XML document (the function body at lines 92-213) and the  *)
(* emission of a shade mesh (lines 55-89), both of which share the global  *)
(* HANDLE_COUNTER of line 10.  Further down, the lockable materials and    *)
(* conditions with the therm properties of a shape (properties/shape.py),  *)
(* the ModelExposure of simulation/exposure.py, and run_model with the     *)
(* solver it starts (run.py).                                              *)
(*                                                                         *)
(* Identifiers and handles are integers.  The caller's objects carry       *)
(* identifiers of 100 and above; the integers the translation assigns are  *)
(* small.  The XML sentinel '-1' is the integer -1.                        *)
(***************************************************************************)
EXTENDS Integers, Sequences, FiniteSets, TLC

(***************************************************************************)
(* Bounds of the model.                                                    *)
(***************************************************************************)
MaxRooms == 2
MaxFaces == 2
MaxShades == 1
MaxHoles == 1
MaxMeshes == 2
MaxMeshFaces == 2
MaxCounter == 3
MaxShapes == 2
MaxRuns == 3

(***************************************************************************)
(* Small helpers on sequences.                                             *)
(***************************************************************************)
Range(s) == {s[i] : i \in DOMAIN s}

RECURSIVE Flatten(_)
Flatten(ss) == IF ss = <<>> THEN <<>> ELSE Head(ss) \o Flatten(Tail(ss))

RECURSIVE SumSeq(_)
SumSeq(s) == IF s = <<>> THEN 0 ELSE Head(s) + SumSeq(Tail(s))

\* str(i) of a small natural number, as '{}'.format writes it
Str(i) == <<"0", "1", "2", "3", "4", "5", "6", "7", "8", "9">>[i + 1]

(***************************************************************************)
(* The objects of the host library the translation reads and edits.        *)
(* A face's bc is <<>> (no adjacency) or <<face identifier, room           *)
(* identifier>> of the face it is adjacent to.                             *)
(***************************************************************************)
Units == {"Meters", "Feet"}
FaceTypes == {"wall", "floor", "air_boundary"}
Angles == {59, 60, 129, 130}
StoryNames == {"A", "B"}
Heights == {0, 3}
AdjKinds == {"none", "peer", "ghost", "stale"}
NoStory == ""
Sentinel == -1
\* the step of the translation at which the host library raises for the model
Faults == {"none", "units", "stories", "faces"}
\* the tolerance of line 119, as text
Tolerance == "0.01"

RoomId(r) == 100 + 10 * r
FaceId(r, k) == 100 + 10 * r + k
ShadeId(s) == 200 + s
MeshId(m) == 300 + m
GhostBC == <<199, 198>>
StaleBC == <<4, 3>>

Face(id, angle, type, bc) ==
    [identifier |-> id, angle |-> angle, type |-> type, bc |-> bc, dsb_face_i |-> Sentinel]

Room(id, story, height, faces) ==
    [identifier |-> id, story |-> story, floor_height |-> height,
     user_data |-> <<>>, faces |-> faces]

Model(units, degenerate, rooms, shades, meshes) ==
    [units |-> units, length |-> 10000, degenerate |-> degenerate, fault |-> "none",
     rooms |-> rooms, shades |-> shades, shade_meshes |-> meshes]

EmptyModel == Model("Meters", FALSE, <<>>, <<>>, <<>>)

(***************************************************************************)
(* The models a caller may hold.  Five families keep the set small: one    *)
(* varies the stories (or floor heights) of the rooms and the links        *)
(* between them, one varies the number of faces of the rooms and the       *)
(* adjacencies (to a face of the model, to a face that is not in the       *)
(* model, to an identifier the renumbering may reuse), one varies the      *)
(* shading geometry, one varies the angle and the type of the faces of a   *)
(* room, one varies the units and what makes a step of the host library    *)
(* fail (degenerate geometry, or a fault at another step).                 *)
(***************************************************************************)
PeerBC(r, n, nf) ==
    LET p == (r % n) + 1 IN <<FaceId(p, nf[p]), RoomId(p)>>

AdjBC(kind, r, n, nf) ==
    CASE kind = "none" -> <<>>
      [] kind = "peer" -> PeerBC(r, n, nf)
      [] kind = "ghost" -> GhostBC
      [] kind = "stale" -> StaleBC

StructureRoom(r, n, nf, adj, story, height) ==
    Room(RoomId(r), story, height,
         [k \in 1..nf[r] |->
            Face(FaceId(r, k), 90, "wall",
                 IF k = 1 THEN AdjBC(adj[r], r, n, nf) ELSE <<>>)])

StructureModel(n, nf, adj, st, ht) ==
    Model("Meters", FALSE,
          [r \in 1..n |-> StructureRoom(r, n, nf, adj, st[r], ht[r])], <<>>, <<>>)

PlainRoom(r) == Room(RoomId(r), "A", 0, <<Face(FaceId(r, 1), 90, "wall", <<>>)>>)

(***************************************************************************)
(* State.                                                                  *)
(*   HANDLE_COUNTER  the global of writer.py line 10                       *)
(*   heap            the model objects: heap[1] is the caller's model,     *)
(*                   heap[2] the duplicate the translation makes           *)
(*   model           the reference the local variable `model` holds        *)
(*   pc              the position of the translation in flight             *)
(*   block_rooms, block_names, f_index_map   the locals of the translation *)
(*   doc             the document under construction / returned            *)
(*   planes          the Planes element a shade-mesh emission returned     *)
(*   result          how the last call ended                               *)
(*   error           the message of the error the last call raised         *)
(* History (not program state):                                            *)
(*   snapshot        the caller's model as it was when the call was made   *)
(*   counterAtCall   HANDLE_COUNTER when the last call was made            *)
(*   session         the handles taken from the counter since it was last  *)
(*                   set to a base, each with the element it was given to  *)
(*   tentative       the blocks as emitted, before the adjacency remap     *)
(*   reset_asked     the reset_counter the last shade-mesh emission was    *)
(*                   called with                                           *)
(***************************************************************************)
VARIABLES HANDLE_COUNTER, heap, model, pc, block_rooms, block_names,
          f_index_map, doc, planes, result, error,
          snapshot, counterAtCall, session, tentative, reset_asked

writerVars == <<HANDLE_COUNTER, heap, model, pc, block_rooms, block_names,
                f_index_map, doc, planes, result, error,
                snapshot, counterAtCall, session, tentative, reset_asked>>

(***************************************************************************)
(* State of the objects outside the writer.                                *)
(*   objects        the lockable objects: for each its _locked flag and    *)
(*                  the value of the property the calls assign             *)
(*   shape_material the _material of the therm properties of each shape    *)
(*   outcome        how the last call on a lockable object or a shape      *)
(*                  ended, with the object as it was before the call       *)
(*   exposure       the four slots of a ModelExposure                      *)
(*   exposure_call  how the last call on the ModelExposure ended, with the *)
(*                  slots as they were before the call                     *)
(*   xml_exp        the element to_therm_xml returned                      *)
(*   parsed         what from_therm_xml made of that element               *)
(***************************************************************************)
VARIABLES objects, shape_material, outcome, exposure, exposure_call, xml_exp, parsed

materialVars == <<objects, shape_material, outcome>>

exposureVars == <<exposure, exposure_call, xml_exp, parsed>>

(***************************************************************************)
(* State of a simulation directory and of the calls of run_model on it.    *)
(*   run_pc         where run_model is: "idle" when no call is in flight   *)
(*   runs           the number of calls of run_model made                  *)
(*   run_mode       silent, and whether the batch text is ASCII            *)
(*   therm_log      the file therm.log of the directory: whether it        *)
(*                  exists, its text, and the call whose solver wrote it   *)
(*   solver         the solver process of the call: "none", "running",     *)
(*                  "logged" (log written), "exited"                       *)
(*   solver_starts  how often the call started a solver                    *)
(*   run_result     how the last call of run_model ended                   *)
(***************************************************************************)
VARIABLES run_pc, runs, run_mode, therm_log, solver, solver_starts, run_result

runVars == <<run_pc, runs, run_mode, therm_log, solver, solver_starts, run_result>>

vars == <<writerVars, materialVars, exposureVars, runVars>>

(***************************************************************************)
(* The lockable objects.  The classes SolidMaterial, CavityMaterial and    *)
(* ComprehensiveCondition are not among the source files; the objects are  *)
(* those of their tests, each with the property its lockability test       *)
(* assigns.  None is the text "None".                                      *)
(***************************************************************************)
None == "None"

Objects == {"concrete", "insulation", "air_gap", "nfrc_ext"}

ClassOf(o) ==
    CASE o \in {"concrete", "insulation"} -> "SolidMaterial"
      [] o = "air_gap" -> "CavityMaterial"
      [] o = "nfrc_ext" -> "ComprehensiveCondition"

\* density, cavity_model, temperature
ValidValues(o) ==
    CASE ClassOf(o) = "SolidMaterial" -> {600, 700}
      [] ClassOf(o) = "CavityMaterial" -> {"CEN", "NFRC"}
      [] ClassOf(o) = "ComprehensiveCondition" -> {36, 0}

InvalidValues(o) == IF ClassOf(o) = "SolidMaterial" THEN {-1} ELSE {}

NewObject(o) == [locked |-> FALSE, value |-> CHOOSE v \in ValidValues(o) : TRUE]

NoCall == [call |-> "none"]

(***************************************************************************)
(* simulation/exposure.py: the constants of the class ModelExposure (lines *)
(* 79-100), its setters (lines 118-187) with the check of lines 189-206,   *)
(* and the constructor (lines 102-111).  An object is the record of its    *)
(* four slots.  A setter is an operator from the object and the value to   *)
(* the exception raised ("" when none) and the object as the call leaves   *)
(* it.                                                                     *)
(***************************************************************************)
MODEL_TYPES ==
    <<"Window", "Opaque Wall", "Opaque Roof", "Other">>

WINDOW_SECTIONS ==
    <<"Sill", "Jamb", "Head", "Horizontal Divider", "Vertical Divider",
      "Horizontal Meeting Rail", "Vertical Meeting Rail", "Common Frame",
      "Spacer">>

OPAQUE_SECTIONS ==
    <<"Sill Plate", "Header", "End Section", "Middle Section",
      "Thermal Bridge", "Window Framing - Sill", "Rough Opening - Header",
      "Rough Opening - Jamb">>

OTHER_SECTIONS ==
    <<"General Cross Section", "Common Thermal Bridge">>

ALL_SECTIONS == WINDOW_SECTIONS \o OPAQUE_SECTIONS \o OTHER_SECTIONS

GRAVITY_ORIENTATIONS ==
    <<"Down", "Up", "Left", "Right", "Into Screen", "Out Of Screen">>

SECTION_MAP ==
    ("Window" :> WINDOW_SECTIONS[1]) @@ ("Opaque Wall" :> OPAQUE_SECTIONS[1]) @@
    ("Opaque Roof" :> OPAQUE_SECTIONS[1]) @@ ("Other" :> OTHER_SECTIONS[1])

\* str.lower() of the texts that have an upper-case letter
LOWER ==
    ("Window" :> "window") @@
    ("Opaque Wall" :> "opaque wall") @@
    ("Opaque Roof" :> "opaque roof") @@
    ("Other" :> "other") @@
    ("Sill" :> "sill") @@
    ("Jamb" :> "jamb") @@
    ("Head" :> "head") @@
    ("Horizontal Divider" :> "horizontal divider") @@
    ("Vertical Divider" :> "vertical divider") @@
    ("Horizontal Meeting Rail" :> "horizontal meeting rail") @@
    ("Vertical Meeting Rail" :> "vertical meeting rail") @@
    ("Common Frame" :> "common frame") @@
    ("Spacer" :> "spacer") @@
    ("Sill Plate" :> "sill plate") @@
    ("Header" :> "header") @@
    ("End Section" :> "end section") @@
    ("Middle Section" :> "middle section") @@
    ("Thermal Bridge" :> "thermal bridge") @@
    ("Window Framing - Sill" :> "window framing - sill") @@
    ("Rough Opening - Header" :> "rough opening - header") @@
    ("Rough Opening - Jamb" :> "rough opening - jamb") @@
    ("General Cross Section" :> "general cross section") @@
    ("Common Thermal Bridge" :> "common thermal bridge") @@
    ("Down" :> "down") @@
    ("Up" :> "up") @@
    ("Left" :> "left") @@
    ("Right" :> "right") @@
    ("Into Screen" :> "into screen") @@
    ("Out Of Screen" :> "out of screen") @@
    ("Door" :> "door") @@
    ("Lintel" :> "lintel") @@
    ("Sideways" :> "sideways") @@
    ("Opaque Walls" :> "opaque walls")

Lower(text) == IF text \in DOMAIN LOWER THEN LOWER[text] ELSE text

\* the for loop of a setter: the first key that equals the value but for case
Matches(value, keys) == {i \in DOMAIN keys : Lower(keys[i]) = Lower(value)}

FirstMatch(value, keys) ==
    keys[CHOOSE i \in Matches(value, keys) : \A j \in Matches(value, keys) : i <= j]

\* the slot as stored
CrossSectionTypeStored(obj) == obj.cross_section_type

\* lines 136-140: the cross_section_type property
CrossSectionType(obj) ==
    IF obj.cross_section_type # None THEN obj.cross_section_type
    ELSE SECTION_MAP[obj.model_type]

\* lines 189-206: "" when the check passes
CheckModelAndCrossSection(obj) ==
    LET cs == CrossSectionType(obj)
        sections == IF obj.model_type = "Other" THEN OTHER_SECTIONS
                    ELSE IF obj.model_type = "Window" THEN WINDOW_SECTIONS
                    ELSE OPAQUE_SECTIONS
    IN IF cs = None THEN ""
       ELSE IF cs \in Range(sections) THEN "" ELSE "AssertionError"

Restored(before, after) == before

\* what an exception leaves of the assignments made before it was raised
Kept(before, after) == after

\* lines 122-134
ModelTypeSetter(obj, value) ==
    IF value # None /\ Matches(value, MODEL_TYPES) = {}
    THEN [raised |-> "ValueError", obj |-> obj]
    ELSE LET set == [obj EXCEPT !.model_type =
                        IF value # None THEN FirstMatch(value, MODEL_TYPES) ELSE "Other"]
             raised == CheckModelAndCrossSection(set)
         IN [raised |-> raised, obj |-> IF raised = "" THEN set ELSE Kept(obj, set)]

\* lines 142-156
CrossSectionTypeSetter(obj, value) ==
    IF value # None /\ Matches(value, ALL_SECTIONS) = {}
    THEN [raised |-> "ValueError", obj |-> obj]
    ELSE LET set == [obj EXCEPT !.cross_section_type =
                        IF value # None THEN FirstMatch(value, ALL_SECTIONS) ELSE None]
             raised == CheckModelAndCrossSection(set)
         IN [raised |-> raised, obj |-> IF raised = "" THEN set ELSE Kept(obj, set)]

\* lines 163-176
GravityOrientationSetter(obj, value) ==
    IF value # None /\ Matches(value, GRAVITY_ORIENTATIONS) = {}
    THEN [raised |-> "ValueError", obj |-> obj]
    ELSE [raised |-> "",
          obj |-> [obj EXCEPT !.gravity_orientation =
                     IF value # None THEN FirstMatch(value, GRAVITY_ORIENTATIONS)
                     ELSE None]]

\* lines 184-187: float_in_range(value, 0, 360, ...)
WindOrientationSetter(obj, value) ==
    IF value >= 0 /\ value <= 360
    THEN [raised |-> "", obj |-> [obj EXCEPT !.wind_orientation = value]]
    ELSE [raised |-> "AssertionError", obj |-> obj]

\* lines 102-111: the object, or the exception of the first setter that raises
ModelExposure(model_type, cross_section_type, gravity_orientation, wind_orientation) ==
    LET blank == [model_type |-> None, cross_section_type |-> None,
                  gravity_orientation |-> None, wind_orientation |-> 0]
        m == ModelTypeSetter(blank, model_type)
        c == CrossSectionTypeSetter(m.obj, cross_section_type)
        g == GravityOrientationSetter(c.obj, gravity_orientation)
        w == WindOrientationSetter(g.obj, wind_orientation)
    IN IF m.raised # "" THEN [raised |-> m.raised]
       ELSE IF c.raised # "" THEN [raised |-> c.raised]
       ELSE IF g.raised # "" THEN [raised |-> g.raised]
       ELSE IF w.raised # "" THEN [raised |-> w.raised]
       ELSE [raised |-> "", obj |-> w.obj]

NoXml == [tag |-> "none"]

InitExposure ==
    /\ exposure = ModelExposure("Other", None, None, 0).obj
    /\ exposure_call = NoCall
    /\ xml_exp = NoXml
    /\ parsed = NoCall

(***************************************************************************)
(* run.py: run_model (lines 15-47) and run_thmz (lines 50-86), with the    *)
(* solver as a process of its own.  run_model is a sequence of steps       *)
(* because the solver runs between them:                                   *)
(*   RunModel      lines 27-36: the assertion, preparedir and to_thmz      *)
(*   StartSolver   lines 61-77 and 81-83: the assertions of run_thmz and   *)
(*                 the start of the solver by os.system or Popen           *)
(*   AwaitSolver   lines 77-78 and 84-86: os.system or communicate returns *)
(*   ReadLog       lines 40-47                                             *)
(* The solver writes its log at most once and exits; it may exit without   *)
(* having written a log.                                                   *)
(***************************************************************************)
NoFile == [exists |-> FALSE]

File(text, run) == [exists |-> TRUE, text |-> text, run |-> run]

Complete == "Calculation complete."

\* the texts a solver run writes to its log
LogTexts == {<<"Simulation started.", Complete>>, <<"Simulation started.", "Error.">>}

RunModes == [silent : BOOLEAN, ascii : BOOLEAN]

\* line 33: preparedir(directory) of ladybug.futil, called with its default
\* remove_content=True: the files of an existing directory are removed, and
\* a file whose removal fails is left where it is without an error
PrepareDir(file) == {NoFile, file}

InitRun ==
    /\ run_pc = "idle"
    /\ runs = 0
    /\ run_mode = [silent |-> FALSE, ascii |-> TRUE]
    /\ therm_log = NoFile
    /\ solver = "none"
    /\ solver_starts = 0
    /\ run_result = NoCall

InitMaterials ==
    /\ objects = [o \in Objects |-> NewObject(o)]
    /\ shape_material = [s \in 1..MaxShapes |-> None]
    /\ outcome = NoCall

InitObjects == InitMaterials /\ InitExposure /\ InitRun

CallerHasStoryModel ==
    \E n \in 0..MaxRooms :
      \E adj \in [1..n -> {"none", "peer"}] :
        /\ \A r \in 1..n : adj[r] = "peer" => n > 1
        /\ \/ \E st \in [1..n -> StoryNames] :
                heap = <<StructureModel(n, [r \in 1..n |-> 1], adj, st, [r \in 1..n |-> 0]),
                         EmptyModel>>
           \/ \E ht \in [1..n -> Heights] :
                heap = <<StructureModel(n, [r \in 1..n |-> 1], adj,
                                        [r \in 1..n |-> NoStory], ht),
                         EmptyModel>>

CallerHasAdjacencyModel ==
    \E n \in 1..MaxRooms :
      \E nf \in [1..n -> 1..MaxFaces], adj \in [1..n -> AdjKinds] :
        /\ \A r \in 1..n : adj[r] = "peer" => n > 1
        /\ heap = <<StructureModel(n, nf, adj, [r \in 1..n |-> "A"], [r \in 1..n |-> 0]),
                    EmptyModel>>

CallerHasShadingModel ==
    \E n \in 0..MaxRooms, ns \in 0..MaxShades, nm \in 0..MaxMeshes :
      \E hs \in [1..ns -> 0..MaxHoles], fs \in [1..nm -> 0..MaxMeshFaces] :
        heap = <<Model("Meters", FALSE, [r \in 1..n |-> PlainRoom(r)],
                       [s \in 1..ns |-> [identifier |-> ShadeId(s), holes |-> hs[s]]],
                       [j \in 1..nm |-> [identifier |-> MeshId(j), nfaces |-> fs[j]]]),
                 EmptyModel>>

CallerHasFaceModel ==
    \E n \in 1..MaxFaces :
      \E as \in [1..n -> Angles \X FaceTypes] :
        heap = <<Model("Meters", FALSE,
                       <<Room(RoomId(1), "A", 0,
                              [k \in 1..n |-> Face(FaceId(1, k), as[k][1], as[k][2], <<>>)])>>,
                       <<>>, <<>>),
                 EmptyModel>>

CallerHasFaultyModel ==
    \E u \in Units, d \in BOOLEAN, f \in Faults, n \in 0..MaxRooms, storied \in BOOLEAN :
      heap = <<[Model(u, d,
                      [r \in 1..n |->
                         Room(RoomId(r), IF storied THEN "A" ELSE NoStory, 0,
                              <<Face(FaceId(r, 1), 90, "wall", <<>>)>>)],
                      <<>>, <<>>) EXCEPT !.fault = f],
               EmptyModel>>

EmptyDoc == [site |-> 0, blocks |-> <<>>, planes |-> <<>>]
NoError == <<>>

Init ==
    /\ HANDLE_COUNTER = 1
    /\ \/ CallerHasStoryModel
       \/ CallerHasAdjacencyModel
       \/ CallerHasShadingModel
       \/ CallerHasFaceModel
       \/ CallerHasFaultyModel
    /\ InitObjects
    /\ model = 0
    /\ pc = "idle"
    /\ block_rooms = <<>>
    /\ block_names = <<>>
    /\ f_index_map = <<>>
    /\ doc = EmptyDoc
    /\ planes = <<>>
    /\ result = "none"
    /\ error = NoError
    /\ snapshot = EmptyModel
    /\ counterAtCall = 1
    /\ session = <<>>
    /\ tentative = <<>>
    /\ reset_asked = FALSE

(***************************************************************************)
(* Lines 110-123: duplicate the model, convert its units, remove the       *)
(* degenerate geometry.  model.duplicate() returns a new object; the       *)
(* reference 1 is the caller's model (original_model).  No call of the host *)
(* library is guarded except remove_degenerate_geometry, whose ValueError   *)
(* is caught and raised again with a message of the translation's own.      *)
(***************************************************************************)
DuplicateAlias(ref) == ref

Duplicate(ref) == 2

Release(h, ref) == IF ref = 1 THEN h ELSE [h EXCEPT ![ref] = EmptyModel]

ConvertToUnits(m) ==
    IF m.units # "Meters"
    THEN [m EXCEPT !.units = "Meters", !.length = (m.length * 3048) \div 10000]
    ELSE m

DegenerateError(units) ==
    <<"Failed to remove degenerate Rooms.\nYour Model units system is: ", units,
      ". Is this correct?">>

\* the error of a call of the host library that nothing catches
HostError(step) == <<"raised by ", step>>

\* line 116 is reached, and convert_to_units raises
ConvertFails(m) == m.units # "Meters" /\ m.fault = "units"

DegenerateSwallowed(m) == FALSE

\* lines 119-120: remove_degenerate_geometry(0.01) raises ValueError
DegenerateRaises(m) == m.degenerate

ErrorUnitsConverted(original_model, m) == m.units

\* line 122: the units the message names
ErrorUnits(original_model, m) == original_model.units

Call ==
    /\ pc = "idle"
    /\ LET ref == Duplicate(1)
           h1 == [heap EXCEPT ![ref] = heap[1]]
           h2 == [h1 EXCEPT ![ref] = ConvertToUnits(h1[ref])]
       IN IF ConvertFails(h1[ref])
          THEN /\ heap' = Release(h1, ref)
               /\ model' = 0
               /\ pc' = "idle"
               /\ result' = "raised"
               /\ error' = HostError("convert_to_units")
          ELSE IF DegenerateRaises(h2[ref])
          THEN /\ heap' = Release(h2, ref)
               /\ model' = 0
               /\ pc' = "idle"
               /\ result' = "raised"
               /\ error' = DegenerateError(ErrorUnits(h2[1], h2[ref]))
          ELSE /\ heap' = h2
               /\ model' = ref
               /\ pc' = "prepare"
               /\ result' = "running"
               /\ error' = NoError
    /\ snapshot' = heap[1]
    /\ counterAtCall' = HANDLE_COUNTER
    /\ block_rooms' = <<>>
    /\ block_names' = <<>>
    /\ f_index_map' = <<>>
    /\ doc' = EmptyDoc
    /\ planes' = <<>>
    /\ tentative' = <<>>
    /\ reset_asked' = FALSE
    /\ UNCHANGED <<HANDLE_COUNTER, session>>
    /\ UNCHANGED <<materialVars, exposureVars, runVars>>

(***************************************************************************)
(* Lines 124-137: assign stories when the model has none, replace the      *)
(* rooms' user data, reassign the types of the faces by their angle to the *)
(* z axis.                                                                 *)
(***************************************************************************)
HasStories(m) == \E r \in DOMAIN m.rooms : m.rooms[r].story # NoStory

FloorNames == <<"Floor1", "Floor2", "Floor3", "Floor4">>

\* assign_stories_by_floor_height(min_difference=2.0): rooms whose floor is at
\* least 2.0 above another floor are on a higher story
AssignStoriesByFloorHeight(m) ==
    LET hs == {m.rooms[r].floor_height : r \in DOMAIN m.rooms}
        rank(h) == 1 + Cardinality({g \in hs : h - g >= 2})
    IN [m EXCEPT !.rooms =
          [r \in DOMAIN m.rooms |->
             [m.rooms[r] EXCEPT !.story = FloorNames[rank(m.rooms[r].floor_height)]]]]

FaceTypeAlwaysWall(angle, type) ==
    IF angle < 60 THEN "roof_ceiling" ELSE IF angle >= 130 THEN "floor" ELSE "wall"

FaceTypeKept(angle, type) == type

FaceType(angle, type) ==
    IF angle < 60 THEN "roof_ceiling" ELSE IF angle >= 130 THEN "floor" ELSE type

PrepareRoom(room) ==
    [room EXCEPT
       !.user_data = <<room.identifier>>,
       !.faces = [k \in DOMAIN room.faces |->
                    [room.faces[k] EXCEPT
                       !.type = FaceType(room.faces[k].angle, room.faces[k].type)]]]

\* line 126 is reached, and assign_stories_by_floor_height raises
AssignFails(m) == ~HasStories(m) /\ Len(m.rooms) # 0 /\ m.fault = "stories"

\* the body of the loop of lines 132-137 is reached, and raises
ClassifyFails(m) ==
    /\ \E r \in DOMAIN m.rooms : m.rooms[r].faces # <<>>
    /\ m.fault = "faces"

Prepare ==
    /\ pc = "prepare"
    /\ LET m0 == heap[model]
           m1 == IF ~HasStories(m0) /\ Len(m0.rooms) # 0
                 THEN AssignStoriesByFloorHeight(m0) ELSE m0
           m2 == [m1 EXCEPT !.rooms = [r \in DOMAIN m1.rooms |-> PrepareRoom(m1.rooms[r])]]
       IN IF AssignFails(m0) \/ ClassifyFails(m1)
          THEN /\ heap' = Release(heap, model)
               /\ model' = 0
               /\ pc' = "idle"
               /\ result' = "raised"
               /\ error' = HostError(IF AssignFails(m0) THEN "assign_stories_by_floor_height"
                                      ELSE "face.type")
          ELSE /\ heap' = [heap EXCEPT ![model] = m2]
               /\ model' = model
               /\ pc' = "group"
               /\ UNCHANGED <<result, error>>
    /\ UNCHANGED <<HANDLE_COUNTER, block_rooms, block_names, f_index_map, doc,
                   planes, snapshot, counterAtCall, session, tentative, reset_asked>>
    /\ UNCHANGED <<materialVars, exposureVars, runVars>>

(***************************************************************************)
(* Lines 154-165: group the rooms by story and, within a story, by         *)
(* adjacency; one block per group.  A group is a sequence of indices into  *)
(* model.rooms (the references the code holds).                            *)
(***************************************************************************)
RECURSIVE StoryOrder(_, _)
\* the story names of the rooms, each once, in the order of first appearance
StoryOrder(rooms, r) ==
    IF r > Len(rooms) THEN <<>>
    ELSE LET rest == StoryOrder(rooms, r + 1)
         IN <<rooms[r].story>> \o SelectSeq(rest, LAMBDA n : n # rooms[r].story)

Indices(rooms) == [r \in 1..Len(rooms) |-> r]

\* Room.group_by_story: <<story_rooms, story_names>>
GroupByStory(rooms) ==
    LET names == StoryOrder(rooms, 1)
    IN <<[i \in DOMAIN names |->
            SelectSeq(Indices(rooms), LAMBDA r : rooms[r].story = names[i])],
         names>>

\* two rooms are adjacent when a face of one names the other as its neighbour
AdjacentRooms(rooms, a, b) ==
    \/ \E k \in DOMAIN rooms[a].faces :
          rooms[a].faces[k].bc # <<>> /\ rooms[a].faces[k].bc[2] = rooms[b].identifier
    \/ \E k \in DOMAIN rooms[b].faces :
          rooms[b].faces[k].bc # <<>> /\ rooms[b].faces[k].bc[2] = rooms[a].identifier

RECURSIVE Connected(_, _, _)
Connected(rooms, comp, among) ==
    LET next == comp \cup {b \in among : \E a \in comp : AdjacentRooms(rooms, a, b)}
    IN IF next = comp THEN comp ELSE Connected(rooms, next, among)

RECURSIVE GroupByAdjacency(_, _)
\* Room.group_by_adjacency: the connected groups of the rooms `flr`
GroupByAdjacency(rooms, flr) ==
    IF flr = <<>> THEN <<>>
    ELSE LET comp == Connected(rooms, {Head(flr)}, Range(flr))
         IN <<SelectSeq(flr, LAMBDA r : r \in comp)>>
            \o GroupByAdjacency(rooms, SelectSeq(flr, LAMBDA r : r \notin comp))

\* '{} {}'.format(flr_name, i + 1), i the 0-based index of the group
NumberedNameFromZero(flr_name, i) == <<flr_name, " ", Str(i)>>

NumberedName(flr_name, i) == <<flr_name, " ", Str(i + 1)>>

StoryBlocksWholeStory(rooms, flr_rooms, flr_name) ==
    <<(<<flr_rooms>>), (<<(<<flr_name>>)>>)>>

\* the blocks of one story: <<rooms of each block, name of each block>>
StoryBlocks(rooms, flr_rooms, flr_name) ==
    LET adj_rooms == GroupByAdjacency(rooms, flr_rooms)
    IN IF Len(adj_rooms) = 1
       THEN <<(<<flr_rooms>>), (<<(<<flr_name>>)>>)>>
       ELSE <<adj_rooms,
              [i \in DOMAIN adj_rooms |-> NumberedName(flr_name, i - 1)]>>

RECURSIVE AllBlocks(_, _, _, _)
AllBlocks(rooms, story_rooms, story_names, s) ==
    IF s > Len(story_rooms) THEN <<(<<>>), (<<>>)>>
    ELSE LET here == StoryBlocks(rooms, story_rooms[s], story_names[s])
             rest == AllBlocks(rooms, story_rooms, story_names, s + 1)
         IN <<here[1] \o rest[1], here[2] \o rest[2]>>

Group ==
    /\ pc = "group"
    /\ LET rooms == heap[model].rooms
           by_story == GroupByStory(rooms)
           blocks == AllBlocks(rooms, by_story[1], by_story[2], 1)
       IN /\ block_rooms' = blocks[1]
          /\ block_names' = blocks[2]
    /\ pc' = "handles"
    /\ UNCHANGED <<HANDLE_COUNTER, heap, model, f_index_map, doc, planes, result,
                   error, snapshot, counterAtCall, session, tentative, reset_asked>>
    /\ UNCHANGED <<materialVars, exposureVars, runVars>>

(***************************************************************************)
(* Lines 167-171: start the counter after the handles of the site and the  *)
(* blocks and give the objects of the model integer identifiers.           *)
(* Model.reset_ids_to_integers numbers the rooms with their faces, the     *)
(* shades and the shade meshes from start_integer on, rewrites the         *)
(* adjacencies that name a face of the model and returns the last integer  *)
(* it assigned.                                                            *)
(***************************************************************************)
RoomOffset(m, r) == SumSeq([q \in 1..(r - 1) |-> 1 + Len(m.rooms[q].faces)])
NumRoomObjects(m) == RoomOffset(m, Len(m.rooms) + 1)
NumObjects(m) == NumRoomObjects(m) + Len(m.shades) + Len(m.shade_meshes)

NewRoomId(m, r, start) == start + RoomOffset(m, r)
NewFaceId(m, r, k, start) == NewRoomId(m, r, start) + k
NewShadeId(m, s, start) == start + NumRoomObjects(m) + (s - 1)
NewMeshId(m, j, start) == start + NumRoomObjects(m) + Len(m.shades) + (j - 1)

FacePlaces(m) == UNION {{<<r, k>> : k \in DOMAIN m.rooms[r].faces} : r \in DOMAIN m.rooms}

NewBC(m, bc, start) ==
    IF bc = <<>> THEN bc
    ELSE LET at == {p \in FacePlaces(m) : m.rooms[p[1]].faces[p[2]].identifier = bc[1]}
         IN IF at = {} THEN bc
            ELSE LET p == CHOOSE q \in at : TRUE
                 IN <<NewFaceId(m, p[1], p[2], start), NewRoomId(m, p[1], start)>>

ResetIdsToIntegers(m, start) ==
    [m EXCEPT
       !.rooms = [r \in DOMAIN m.rooms |->
          [m.rooms[r] EXCEPT
             !.identifier = NewRoomId(m, r, start),
             !.faces = [k \in DOMAIN m.rooms[r].faces |->
                [m.rooms[r].faces[k] EXCEPT
                   !.identifier = NewFaceId(m, r, k, start),
                   !.bc = NewBC(m, m.rooms[r].faces[k].bc, start)]]]],
       !.shades = [s \in DOMAIN m.shades |->
          [m.shades[s] EXCEPT !.identifier = NewShadeId(m, s, start)]],
       !.shade_meshes = [j \in DOMAIN m.shade_meshes |->
          [m.shade_meshes[j] EXCEPT !.identifier = NewMeshId(m, j, start)]]]

LastIdAssigned(m, start) == start + NumObjects(m) - 1

FirstHandleKeepCounter(n_blocks, counter) ==
    IF counter > n_blocks + 2 THEN counter ELSE n_blocks + 2

FirstHandleNoSite(n_blocks, counter) == n_blocks + 1

\* line 168: the first integer after the handles of the site and the blocks
FirstHandle(n_blocks, counter) == n_blocks + 2

AssignHandles ==
    /\ pc = "handles"
    /\ LET start == FirstHandle(Len(block_rooms), HANDLE_COUNTER)
       IN /\ heap' = [heap EXCEPT ![model] = ResetIdsToIntegers(heap[model], start)]
          /\ HANDLE_COUNTER' = LastIdAssigned(heap[model], start) + 1
    /\ session' = <<>>
    /\ pc' = IF Len(block_rooms) = 0 THEN "remap" ELSE "blocks"
    /\ UNCHANGED <<model, block_rooms, block_names, f_index_map, doc, planes, result,
                   error, snapshot, counterAtCall, tentative, reset_asked>>
    /\ UNCHANGED <<materialVars, exposureVars, runVars>>

(***************************************************************************)
(* Lines 173-182: one pass of the loop over the blocks.  The block emitter *)
(* room_group_to_therm_xml_block is not among the source files: it is      *)
(* modelled as the element the document needs.  The block carries the      *)
(* handle it is given, each room becomes a zone with the room's            *)
(* identifier, each face a surface with the face's identifier and one      *)
(* adjacency that names the adjacent face and room by identifier ('-1'     *)
(* when the face has none); the index of the surface in its zone is left   *)
(* in the face's user data as dsb_face_i.                                  *)
(***************************************************************************)
TentativeAdjacency(face) ==
    IF face.bc = <<>>
    THEN [surfaceIndex |-> Sentinel, zoneHandle |-> Sentinel]
    ELSE [surfaceIndex |-> face.bc[1], zoneHandle |-> face.bc[2]]

XmlSurface(face) ==
    [handle |-> face.identifier, adjacencies |-> <<TentativeAdjacency(face)>>]

XmlZone(room) ==
    [handle |-> room.identifier,
     surfaces |-> [k \in DOMAIN room.faces |-> XmlSurface(room.faces[k])]]

RoomGroupToXmlBlock(m, room_group, block_handle, block_name) ==
    [handle |-> block_handle, name |-> block_name,
     zones |-> [z \in DOMAIN room_group |-> XmlZone(m.rooms[room_group[z]])]]

SetFaceIndices(m, room_group) ==
    [m EXCEPT !.rooms = [r \in DOMAIN m.rooms |->
        IF r \in Range(room_group)
        THEN [m.rooms[r] EXCEPT !.faces = [k \in DOMAIN m.rooms[r].faces |->
                [m.rooms[r].faces[k] EXCEPT !.dsb_face_i = k - 1]]]
        ELSE m.rooms[r]]]

\* lines 180-182: f_index_map[f.identifier] = f.user_data['dsb_face_i']
FaceIndexEntries(m, room_group) ==
    LET places == {p \in FacePlaces(m) : p[1] \in Range(room_group)}
        ids == {m.rooms[p[1]].faces[p[2]].identifier : p \in places}
    IN [id \in ids |->
          LET p == CHOOSE q \in places : m.rooms[q[1]].faces[q[2]].identifier = id
          IN m.rooms[p[1]].faces[p[2]].dsb_face_i]

IndexMapOfBlockOnly(new, old) == new

\* lines 174 and 182: one map for all blocks, an entry set again replaces the old one
MergeIndexMap(new, old) == new @@ old

BlockHandleFromOne(i) == i + 1

\* line 178: the block of 0-based index i is given the handle i + 2
BlockHandle(i) == i + 2

EmitBlock ==
    /\ pc = "blocks"
    /\ LET i == Len(doc.blocks)
           group == block_rooms[i + 1]
           block == RoomGroupToXmlBlock(heap[model], group, BlockHandle(i),
                                        block_names[i + 1])
           m1 == SetFaceIndices(heap[model], group)
       IN /\ doc' = [doc EXCEPT !.blocks = Append(@, block)]
          /\ heap' = [heap EXCEPT ![model] = m1]
          /\ f_index_map' = MergeIndexMap(FaceIndexEntries(m1, group), f_index_map)
          /\ pc' = IF i + 1 = Len(block_rooms) THEN "remap" ELSE "blocks"
    /\ UNCHANGED <<HANDLE_COUNTER, model, block_rooms, block_names, planes, result,
                   error, snapshot, counterAtCall, session, tentative, reset_asked>>
    /\ UNCHANGED <<materialVars, exposureVars, runVars>>

(***************************************************************************)
(* Lines 184-200: replace the face identifier of every adjacency by the    *)
(* index of that face; an adjacency whose face is not in the map is        *)
(* cleared.                                                                *)
(***************************************************************************)
ClearedKeepsZone(adj) == [adj EXCEPT !.surfaceIndex = Sentinel]

Cleared(adj) == [adj EXCEPT !.surfaceIndex = Sentinel, !.zoneHandle = Sentinel]

ResolvedDropsZone(adj, map) ==
    [adj EXCEPT !.surfaceIndex = map[adj.surfaceIndex], !.zoneHandle = Sentinel]

\* lines 196-197: set('surfaceIndex', f_index_map[xml_adj_face_id])
Resolved(adj, map) == [adj EXCEPT !.surfaceIndex = map[adj.surfaceIndex]]

RemapAdjacency(adj, map) ==
    IF adj.surfaceIndex # Sentinel
    THEN IF adj.surfaceIndex \in DOMAIN map
         THEN Resolved(adj, map)
         ELSE Cleared(adj)
    ELSE adj

RemapBlock(block, map) ==
    [block EXCEPT !.zones = [z \in DOMAIN block.zones |->
        [block.zones[z] EXCEPT !.surfaces = [k \in DOMAIN block.zones[z].surfaces |->
            [block.zones[z].surfaces[k] EXCEPT !.adjacencies =
                [a \in DOMAIN block.zones[z].surfaces[k].adjacencies |->
                    RemapAdjacency(block.zones[z].surfaces[k].adjacencies[a], map)]]]]]]

Remap ==
    /\ pc = "remap"
    /\ tentative' = doc.blocks
    /\ doc' = [doc EXCEPT !.blocks = [b \in DOMAIN doc.blocks |->
                                        RemapBlock(doc.blocks[b], f_index_map)]]
    /\ pc' = "shading"
    /\ UNCHANGED <<HANDLE_COUNTER, heap, model, block_rooms, block_names, f_index_map,
                   planes, result, error, snapshot, counterAtCall, session, reset_asked>>
    /\ UNCHANGED <<materialVars, exposureVars, runVars>>

(***************************************************************************)
(* Lines 13-52: the Plane element of a shade.  The Polygon is given one    *)
(* ObjectIDs element with the shade's identifier as handle, and one more   *)
(* with the same handle for every hole (line 43).                          *)
(***************************************************************************)
ShadeToXml(shade) ==
    [kind |-> "shade", ids |-> [h \in 1..(1 + shade.holes) |-> shade.identifier]]

(***************************************************************************)
(* Lines 68-89: the Plane elements of a shade mesh, one per face, each     *)
(* with the current value of the counter as handle (lines 76-77).          *)
(***************************************************************************)
MeshFaceHandleStuck(counter, i) == counter

MeshFaceHandle(counter, i) == counter + i

ShadeMeshPlanes(mesh, counter) ==
    [i \in 1..mesh.nfaces |-> [kind |-> "mesh_face", ids |-> <<MeshFaceHandle(counter, i - 1)>>]]

ShadeMeshLog(mesh, counter) ==
    [i \in 1..mesh.nfaces |->
       [mesh |-> mesh.identifier, face |-> i - 1, handle |-> MeshFaceHandle(counter, i - 1)]]

CounterNotAdvanced(counter, n) == counter

\* line 77, once per face of the mesh
CounterAfterFaces(counter, n) == counter + n

\* lines 73-88: the counter when the emission of a mesh of n faces ends
CounterAfterMesh(counter, n, reset_counter) ==
    IF reset_counter THEN 1 ELSE CounterAfterFaces(counter, n)

ResetCounterLeftDefault == TRUE

\* line 207: the reset_counter the translation passes
ResetCounterInTranslation == FALSE

RECURSIVE EmitMeshes(_, _, _)
\* lines 205-207: the meshes in turn, the counter running on
EmitMeshes(meshes, counter, j) ==
    IF j > Len(meshes) THEN [planes |-> <<>>, log |-> <<>>, counter |-> counter]
    ELSE LET after == CounterAfterMesh(counter, meshes[j].nfaces, ResetCounterInTranslation)
             rest == EmitMeshes(meshes, after, j + 1)
         IN [planes |-> ShadeMeshPlanes(meshes[j], counter) \o rest.planes,
             log |-> ShadeMeshLog(meshes[j], counter) \o rest.log,
             counter |-> rest.counter]

(***************************************************************************)
(* Lines 202-207: the shades, then the shade meshes.                       *)
(***************************************************************************)
EmitShading ==
    /\ pc = "shading"
    /\ LET m == heap[model]
           out == EmitMeshes(m.shade_meshes, HANDLE_COUNTER, 1)
       IN /\ doc' = [doc EXCEPT !.planes =
                        [s \in DOMAIN m.shades |-> ShadeToXml(m.shades[s])] \o out.planes]
          /\ HANDLE_COUNTER' = out.counter
          /\ session' = session \o out.log
    /\ pc' = "finalize"
    /\ reset_asked' = ResetCounterInTranslation
    /\ UNCHANGED <<heap, model, block_rooms, block_names, f_index_map, planes, result,
                   error, snapshot, counterAtCall, tentative>>
    /\ UNCHANGED <<materialVars, exposureVars, runVars>>

(***************************************************************************)
(* Lines 209-213: the handle of the site, the counter back to 1, return.   *)
(***************************************************************************)
CounterLeftRunning(counter) == counter

CounterAfterTranslation(counter) == 1

Finalize ==
    /\ pc = "finalize"
    /\ doc' = [doc EXCEPT !.site = 1]
    /\ HANDLE_COUNTER' = CounterAfterTranslation(HANDLE_COUNTER)
    /\ session' = IF HANDLE_COUNTER' = 1 THEN <<>> ELSE session
    /\ heap' = Release(heap, model)
    /\ model' = 0
    /\ result' = "returned"
    /\ pc' = "idle"
    /\ block_rooms' = <<>>
    /\ block_names' = <<>>
    /\ f_index_map' = <<>>
    /\ UNCHANGED <<planes, error, snapshot, counterAtCall, tentative, reset_asked>>
    /\ UNCHANGED <<materialVars, exposureVars, runVars>>

(***************************************************************************)
(* Lines 55-89 called on their own (boundary_to_therm_xml, line 342, calls *)
(* them with reset_counter left True).                                     *)
(***************************************************************************)
StandaloneMeshes == {[identifier |-> MeshId(f), nfaces |-> f] : f \in 0..MaxMeshFaces}

ShadeMeshToXml(mesh, reset_counter) ==
    /\ pc = "idle"
    /\ reset_counter \/ HANDLE_COUNTER + mesh.nfaces <= MaxCounter
    /\ planes' = ShadeMeshPlanes(mesh, HANDLE_COUNTER)
    /\ HANDLE_COUNTER' = CounterAfterMesh(HANDLE_COUNTER, mesh.nfaces, reset_counter)
    /\ reset_asked' = reset_counter
    /\ session' = IF reset_counter THEN <<>>
                  ELSE session \o ShadeMeshLog(mesh, HANDLE_COUNTER)
    /\ counterAtCall' = HANDLE_COUNTER
    /\ result' = "planes"
    /\ doc' = EmptyDoc
    /\ tentative' = <<>>
    /\ error' = NoError
    /\ snapshot' = heap[1]
    /\ UNCHANGED <<heap, model, pc, block_rooms, block_names, f_index_map>>
    /\ UNCHANGED <<materialVars, exposureVars, runVars>>

ShadeMeshElement == \E mesh \in StandaloneMeshes, reset_counter \in BOOLEAN :
                        ShadeMeshToXml(mesh, reset_counter)

Next ==
    \/ Call
    \/ Prepare
    \/ Group
    \/ AssignHandles
    \/ EmitBlock
    \/ Remap
    \/ EmitShading
    \/ Finalize
    \/ ShadeMeshElement

Spec == Init /\ [][Next]_vars

(***************************************************************************)
(* The same functions called from two threads.  HANDLE_COUNTER is a global *)
(* of the module (lines 10, 68, 110), so every caller reads and writes the *)
(* one counter: while a translation is between two of its steps, another   *)
(* thread may run a shade-mesh emission (lines 68-89) from beginning to    *)
(* end.  The planes it returns go to that thread; the translation's locals *)
(* and document are not touched.                                           *)
(***************************************************************************)
ConcurrentShadeMeshToXml(mesh, reset_counter) ==
    /\ pc # "idle"
    /\ reset_counter \/ HANDLE_COUNTER + mesh.nfaces <= MaxCounter
    /\ planes' = ShadeMeshPlanes(mesh, HANDLE_COUNTER)
    /\ HANDLE_COUNTER' = CounterAfterMesh(HANDLE_COUNTER, mesh.nfaces, reset_counter)
    /\ reset_asked' = reset_counter
    /\ session' = IF reset_counter THEN <<>>
                  ELSE session \o ShadeMeshLog(mesh, HANDLE_COUNTER)
    /\ UNCHANGED <<heap, model, pc, block_rooms, block_names, f_index_map, doc, result,
                   error, snapshot, counterAtCall, tentative>>
    /\ UNCHANGED <<materialVars, exposureVars, runVars>>

ConcurrentShadeMeshElement == \E mesh \in StandaloneMeshes, reset_counter \in BOOLEAN :
                                  ConcurrentShadeMeshToXml(mesh, reset_counter)

InitInterleaved == CallerHasShadingModel /\ Init

NextInterleaved == Next \/ ConcurrentShadeMeshElement

SpecInterleaved == InitInterleaved /\ [][NextInterleaved]_vars

(***************************************************************************)
(* Lockable objects: lock(), unlock() and the setter of a property.  A     *)
(* setter checks the value first (AssertionError) and then stores it,      *)
(* which a locked object refuses (AttributeError).                         *)
(***************************************************************************)
IsLockedNever(obj) == FALSE

IsLocked(obj) == obj.locked

Lock(o) ==
    /\ objects' = [objects EXCEPT ![o].locked = TRUE]
    /\ outcome' = [call |-> "lock", object |-> o, raised |-> "", before |-> objects[o]]
    /\ UNCHANGED <<shape_material, writerVars, exposureVars, runVars>>

Unlock(o) ==
    /\ objects' = [objects EXCEPT ![o].locked = FALSE]
    /\ outcome' = [call |-> "unlock", object |-> o, raised |-> "", before |-> objects[o]]
    /\ UNCHANGED <<shape_material, writerVars, exposureVars, runVars>>

SetProperty(o, value) ==
    LET raised == IF value \notin ValidValues(o) THEN "AssertionError"
                  ELSE IF IsLocked(objects[o]) THEN "AttributeError" ELSE ""
    IN /\ objects' = IF raised = "" THEN [objects EXCEPT ![o].value = value] ELSE objects
       /\ outcome' = [call |-> "set", object |-> o, value |-> value, raised |-> raised,
                      before |-> objects[o]]
       /\ UNCHANGED <<shape_material, writerVars, exposureVars, runVars>>

(***************************************************************************)
(* properties/shape.py lines 43-49: the setter of a shape's material.      *)
(***************************************************************************)
NotLockedOnAssignment(obj) == obj

\* line 48: value.lock()
LockedOnAssignment(obj) == [obj EXCEPT !.locked = TRUE]

\* line 46: isinstance(value, SolidMaterial)
IsSolidMaterial(o) == ClassOf(o) = "SolidMaterial"

\* the values assigned to a shape's material: None and the library and test
\* materials, the cavity material among them
ShapeMaterials == {None} \cup {o \in Objects : ClassOf(o) \in {"SolidMaterial", "CavityMaterial"}}

SetMaterial(s, value) ==
    LET raised == IF value # None /\ ~IsSolidMaterial(value) THEN "AssertionError" ELSE ""
    IN /\ objects' = IF value # None /\ raised = ""
                     THEN [objects EXCEPT ![value] = LockedOnAssignment(objects[value])]
                     ELSE objects
       /\ shape_material' = IF raised = "" THEN [shape_material EXCEPT ![s] = value]
                            ELSE shape_material
       /\ outcome' = [call |-> "material", object |-> s, value |-> value, raised |-> raised,
                      before |-> shape_material[s]]
       /\ UNCHANGED <<writerVars, exposureVars, runVars>>

\* line 8: the library material the getter falls back to
generic_concrete == "generic_concrete"

MaterialStored(_material) == _material

\* lines 36-41: the material property
Material(_material) == IF _material # None THEN _material ELSE generic_concrete

\* line 24: __slots__
Slots == {"_host", "_material"}

\* line 26: the parameters of __init__ after self
InitParameters == <<"host", "material">>

\* line 143: new_host=None; the hosts are the shapes 1..MaxShapes
NoHost == 0

\* lines 143-152: duplicate(new_host) of the therm properties of shape s.
\* The arguments of the constructor call are evaluated first, each one a
\* read of an attribute of self; the call then binds them to the parameters.
duplicate(s, new_host) ==
    LET _host == IF new_host # NoHost THEN new_host ELSE s
        read == <<"_construction", "_transmittance_schedule", "_pv_properties">>
    IN IF \E i \in DOMAIN read : read[i] \notin Slots
       THEN [raised |-> "AttributeError"]
       ELSE IF 1 + Len(read) > Len(InitParameters)
       THEN [raised |-> "TypeError"]
       ELSE [raised |-> "", host |-> _host, _material |-> shape_material[s]]

DuplicateProperties(s, new_host) ==
    /\ outcome' = [call |-> "duplicate", object |-> s, value |-> new_host,
                   before |-> shape_material[s]] @@ duplicate(s, new_host)
    /\ UNCHANGED <<objects, shape_material, writerVars, exposureVars, runVars>>

LockObject == \E o \in Objects : Lock(o)

UnlockObject == \E o \in Objects : Unlock(o)

AssignProperty == \E o \in Objects : \E value \in ValidValues(o) \cup InvalidValues(o) :
                      SetProperty(o, value)

AssignMaterial == \E s \in 1..MaxShapes : \E value \in ShapeMaterials : SetMaterial(s, value)

DuplicateShape == \E s \in 1..MaxShapes : \E new_host \in {NoHost} \cup 1..MaxShapes :
                      DuplicateProperties(s, new_host)

NextMaterial ==
    \/ LockObject
    \/ UnlockObject
    \/ AssignProperty
    \/ AssignMaterial
    \/ DuplicateShape

InitIdle == heap = <<EmptyModel, EmptyModel>> /\ Init

SpecMaterial == InitIdle /\ [][NextMaterial]_vars

(***************************************************************************)
(* simulation/exposure.py: the assignments to the four properties, and     *)
(* to_therm_xml (lines 269-331) followed by from_therm_xml (lines 208-229) *)
(* on the element it returned.  An assignment makes the element and the    *)
(* object parsed from it out of date.                                       *)
(***************************************************************************)
\* the values assigned: for each property some keys, a key in lower case,
\* a text that is no key, and None
ModelTypeInputs == Range(MODEL_TYPES) \cup {None, "window", "Door"}
CrossSectionInputs ==
    {WINDOW_SECTIONS[1], WINDOW_SECTIONS[2], OPAQUE_SECTIONS[1], OPAQUE_SECTIONS[2],
     OTHER_SECTIONS[1], OTHER_SECTIONS[2], None, "sill", "Lintel"}
GravityInputs == {"Down", "Up", "Into Screen", None, "down", "Sideways"}
WindInputs == {0, 90, 360, 361}
\* model_plane: not given, or given with the angle of its normal to the z axis
ModelPlanes == {[given |-> FALSE, up_ang |-> 0]}
               \cup {[given |-> TRUE, up_ang |-> a] : a \in {0, 44, 45, 90}}

Assigned(call, value, r) ==
    /\ exposure' = r.obj
    /\ exposure_call' = [call |-> call, value |-> value, raised |-> r.raised,
                         before |-> exposure]
    /\ xml_exp' = NoXml
    /\ parsed' = NoCall
    /\ UNCHANGED <<writerVars, materialVars, runVars>>

SetModelType ==
    \E value \in ModelTypeInputs :
       Assigned("model_type", value, ModelTypeSetter(exposure, value))

SetCrossSectionType ==
    \E value \in CrossSectionInputs :
       Assigned("cross_section_type", value, CrossSectionTypeSetter(exposure, value))

SetGravityOrientation ==
    \E value \in GravityInputs :
       Assigned("gravity_orientation", value, GravityOrientationSetter(exposure, value))

SetWindOrientation ==
    \E value \in WindInputs :
       Assigned("wind_orientation", value, WindOrientationSetter(exposure, value))

RECURSIVE DecimalText(_)
DecimalText(n) == IF n < 10 THEN <<Str(n)>> ELSE DecimalText(n \div 10) \o <<Str(n % 10)>>

\* str() of a float without a fractional part
FloatText(x) == DecimalText(x) \o <<".", "0">>

DigitValue(c) == CHOOSE d \in 0..9 : Str(d) = c

RECURSIVE ParseDecimal(_)
ParseDecimal(text) ==
    IF text = <<>> THEN 0
    ELSE 10 * ParseDecimal(SubSeq(text, 1, Len(text) - 1)) + DigitValue(text[Len(text)])

\* float() of such a text
ParseFloat(text) ==
    LET dot == CHOOSE i \in DOMAIN text : text[i] = "."
    IN ParseDecimal(SubSeq(text, 1, dot - 1))

GravityDownAlways(obj, model_plane) == "Down"

\* lines 296-305: the text of GravityOrientation
GravityText(obj, model_plane) ==
    IF obj.gravity_orientation = None
    THEN IF model_plane.given
         THEN IF model_plane.up_ang < 45 THEN "Into Screen" ELSE "Down"
         ELSE "Down"
    ELSE obj.gravity_orientation

\* lines 289-331
to_therm_xml(obj, model_plane) ==
    [tag |-> "ModelExposure",
     ModelOrientation |-> FloatText(obj.wind_orientation),
     GravityOrientation |-> GravityText(obj, model_plane),
     ModelPurpose |-> IF obj.model_type = "Window" THEN "Window/Transparent Facade"
                      ELSE IF obj.model_type \in {"Opaque Wall", "Opaque Roof"}
                      THEN "Opaque Facade"
                      ELSE obj.model_type,
     Assembly |-> IF obj.model_type = "Opaque Wall" THEN "Walls"
                  ELSE IF obj.model_type = "Opaque Roof" THEN "Roof"
                  ELSE None,
     CrossSection |-> IF obj.model_type = "Window" THEN "WindowCrossSection"
                      ELSE IF obj.model_type \in {"Opaque Wall", "Opaque Roof"}
                      THEN "OpaqueCrossSection"
                      ELSE "OtherCrossSection",
     CrossSectionText |-> CrossSectionType(obj)]

\* 'Opaque {}'.format(text)
OpaqueFormat(text) == IF text = "Walls" THEN "Opaque Walls" ELSE "Opaque Roof"

\* lines 214-229
from_therm_xml(xml_element) ==
    LET purpose == xml_element.ModelPurpose
        model_type == IF purpose = "Other" THEN "Other"
                      ELSE IF purpose = "Window/Transparent Facade" THEN "Window"
                      ELSE OpaqueFormat(xml_element.Assembly)
        cross_section == IF purpose = "Other" THEN "OtherCrossSection"
                         ELSE IF purpose = "Window/Transparent Facade"
                         THEN "WindowCrossSection"
                         ELSE "OpaqueCrossSection"
    IN IF xml_element.CrossSection # cross_section
       THEN [raised |-> "AttributeError"]
       ELSE ModelExposure(model_type, xml_element.CrossSectionText,
                          xml_element.GravityOrientation,
                          ParseFloat(xml_element.ModelOrientation))

ToThermXml ==
    \E model_plane \in ModelPlanes :
       /\ xml_exp' = to_therm_xml(exposure, model_plane)
       /\ exposure_call' = [call |-> "to_therm_xml", value |-> model_plane, raised |-> "",
                            before |-> exposure]
       /\ parsed' = NoCall
       /\ UNCHANGED <<exposure, writerVars, materialVars, runVars>>

FromThermXml ==
    /\ xml_exp # NoXml
    /\ parsed' = [call |-> "from_therm_xml"] @@ from_therm_xml(xml_exp)
    /\ UNCHANGED <<exposure, exposure_call, xml_exp, writerVars, materialVars, runVars>>

NextExposure ==
    \/ SetModelType
    \/ SetCrossSectionType
    \/ SetGravityOrientation
    \/ SetWindOrientation
    \/ ToThermXml
    \/ FromThermXml

SpecExposure == InitIdle /\ [][NextExposure]_vars

(***************************************************************************)
(* run.py: the steps of run_model and of the solver.                       *)
(***************************************************************************)
Raise(exception, run) ==
    /\ run_pc' = "idle"
    /\ run_result' = [call |-> "run_model", raised |-> exception, run |-> run]

\* lines 27-36
RunModel(is_model, mode) ==
    /\ run_pc = "idle"
    /\ runs < MaxRuns
    /\ runs' = runs + 1
    /\ run_mode' = mode
    /\ solver' = "none"
    /\ solver_starts' = 0
    /\ IF ~is_model
       THEN /\ Raise("AssertionError", runs + 1)
            /\ UNCHANGED therm_log
       ELSE /\ therm_log' \in PrepareDir(therm_log)
            /\ run_pc' = "run_thmz"
            /\ run_result' = NoCall
    /\ UNCHANGED <<writerVars, materialVars, exposureVars>>

\* lines 61-77, 81-83
StartSolver(therm_exe) ==
    /\ run_pc = "run_thmz"
    /\ IF therm_exe = None
       THEN /\ Raise("AssertionError", runs)
            /\ UNCHANGED <<solver, solver_starts>>
       ELSE /\ solver' = "running"
            /\ solver_starts' = solver_starts + 1
            /\ run_pc' = IF ~run_mode.silent /\ run_mode.ascii THEN "os.system"
                         ELSE "communicate"
            /\ UNCHANGED run_result
    /\ UNCHANGED <<runs, run_mode, therm_log, writerVars, materialVars, exposureVars>>

\* the solver writes the log named by -log
SolverWritesLog(text) ==
    /\ solver = "running"
    /\ therm_log' = File(text, runs)
    /\ solver' = "logged"
    /\ UNCHANGED <<run_pc, runs, run_mode, solver_starts, run_result,
                   writerVars, materialVars, exposureVars>>

SolverExits ==
    /\ solver \in {"running", "logged"}
    /\ solver' = "exited"
    /\ UNCHANGED <<run_pc, runs, run_mode, therm_log, solver_starts, run_result,
                   writerVars, materialVars, exposureVars>>

NotAwaited(process) == TRUE

\* lines 77 and 84: os.system and communicate return when the process has
\* terminated
Awaited(process) == process = "exited"

\* lines 78 and 86: run_thmz returns
AwaitSolver ==
    /\ run_pc \in {"os.system", "communicate"}
    /\ Awaited(solver)
    /\ run_pc' = "read_log"
    /\ UNCHANGED <<runs, run_mode, therm_log, solver, solver_starts, run_result,
                   writerVars, materialVars, exposureVars>>

CompleteAlways(sim_log) == TRUE

\* line 43: 'Calculation complete.' in sim_log
CalculationComplete(sim_log) == \E i \in DOMAIN sim_log : sim_log[i] = Complete

\* lines 40-47
ReadLog ==
    /\ run_pc = "read_log"
    /\ run_pc' = "idle"
    /\ run_result' =
          IF ~therm_log.exists
          THEN [call |-> "run_model", raised |-> "IOError", run |-> runs]
          ELSE IF ~CalculationComplete(therm_log.text)
          THEN [call |-> "run_model", raised |-> "ValueError", run |-> runs,
                message |-> <<"THERM simulation failed.">> \o therm_log.text]
          ELSE [call |-> "run_model", raised |-> "", run |-> runs,
                path |-> "model.thmz", log |-> therm_log]
    /\ UNCHANGED <<runs, run_mode, therm_log, solver, solver_starts,
                   writerVars, materialVars, exposureVars>>

RunModelCalled == \E is_model \in BOOLEAN, mode \in RunModes : RunModel(is_model, mode)

SolverStarted == \E therm_exe \in {None, "THERM8.exe"} : StartSolver(therm_exe)

SolverLogged == \E text \in LogTexts : SolverWritesLog(text)

NextRun ==
    \/ RunModelCalled
    \/ SolverStarted
    \/ SolverLogged
    \/ SolverExits
    \/ AwaitSolver
    \/ ReadLog

SpecRun == InitIdle /\ [][NextRun]_vars

(***************************************************************************)
(* Reading the document.                                                   *)
(***************************************************************************)
Translating == pc # "idle"
Returned == pc = "idle" /\ result = "returned"
AfterRemap == pc \in {"shading", "finalize"} \/ Returned

\* the places of the adjacencies of the blocks: <<block, zone, surface, adjacency>>
AdjacencyPlaces(blocks) ==
    UNION {UNION {UNION {{<<b, z, k, a>> : a \in DOMAIN blocks[b].zones[z].surfaces[k].adjacencies}
                           : k \in DOMAIN blocks[b].zones[z].surfaces}
                    : z \in DOMAIN blocks[b].zones}
             : b \in DOMAIN blocks}

AdjacencyAt(blocks, p) == blocks[p[1]].zones[p[2]].surfaces[p[3]].adjacencies[p[4]]

\* the handles of the surfaces of the blocks: the keys of the face index map
SurfaceHandles(blocks) ==
    UNION {UNION {{blocks[b].zones[z].surfaces[k].handle : k \in DOMAIN blocks[b].zones[z].surfaces}
                    : z \in DOMAIN blocks[b].zones}
             : b \in DOMAIN blocks}

Dangling(adj, keys) == adj.surfaceIndex # Sentinel /\ adj.surfaceIndex \notin keys

\* the handle of every ObjectIDs element of the document, in document order
ZoneHandleSeq(zone) ==
    <<zone.handle>> \o [k \in DOMAIN zone.surfaces |-> zone.surfaces[k].handle]

BlockHandleSeq(block) ==
    <<block.handle>> \o Flatten([z \in DOMAIN block.zones |-> ZoneHandleSeq(block.zones[z])])

PlaneHandleSeq(ps) == Flatten([i \in DOMAIN ps |-> ps[i].ids])

DocHandleSeq(d) ==
    <<d.site>> \o Flatten([b \in DOMAIN d.blocks |-> BlockHandleSeq(d.blocks[b])])
               \o PlaneHandleSeq(d.planes)

Distinct(seq) == \A i, j \in DOMAIN seq : i # j => seq[i] # seq[j]

(***************************************************************************)
(* C1.  After the adjacency remap, every adjacency whose tentative         *)
(* surfaceIndex was not '-1' and named a face that is not a key of the     *)
(* face index map has surfaceIndex '-1' and zoneHandle '-1'; the           *)
(* translation is not aborted by it: it is still running, or has returned  *)
(* the document with these adjacencies cleared.                            *)
(***************************************************************************)
C1_DanglingAdjacencyCleared ==
    /\ pc \in {"shading", "finalize"} =>
          /\ result = "running"
          /\ DOMAIN f_index_map = SurfaceHandles(tentative)
    /\ AfterRemap =>
          /\ AdjacencyPlaces(doc.blocks) = AdjacencyPlaces(tentative)
          /\ \A p \in AdjacencyPlaces(tentative) :
                Dangling(AdjacencyAt(tentative, p), SurfaceHandles(tentative)) =>
                   /\ AdjacencyAt(doc.blocks, p).surfaceIndex = Sentinel
                   /\ AdjacencyAt(doc.blocks, p).zoneHandle = Sentinel

C1_Witness ==
    /\ Returned
    /\ doc.site = 1
    /\ \E p \in AdjacencyPlaces(tentative) :
          /\ Dangling(AdjacencyAt(tentative, p), SurfaceHandles(tentative))
          /\ AdjacencyAt(tentative, p).zoneHandle # Sentinel
          /\ AdjacencyAt(doc.blocks, p) = [surfaceIndex |-> Sentinel, zoneHandle |-> Sentinel]

(***************************************************************************)
(* C2.  In the document a translation returned, no two ObjectIDs elements  *)
(* (site, blocks, zones, surfaces, the polygons of the shades with their   *)
(* holes, the shade-mesh faces) carry the same handle.                     *)
(***************************************************************************)
C2_NoHandleTwice == Returned => Distinct(DocHandleSeq(doc))

C2_Witness ==
    /\ Returned
    /\ \E i \in DOMAIN doc.planes : doc.planes[i].kind = "shade" /\ Len(doc.planes[i].ids) > 1

(***************************************************************************)
(* C3.  As claimed: an element that was given a handle in the session is   *)
(* given the same handle when it is emitted again.                         *)
(***************************************************************************)
SessionHandles == {session[i].handle : i \in DOMAIN session}

C3_RegistrationIdempotent ==
    \A i, j \in DOMAIN session :
       (session[i].mesh = session[j].mesh /\ session[i].face = session[j].face)
          => session[i].handle = session[j].handle

MeshPlanes(ps) == SelectSeq(ps, LAMBDA pl : pl.kind = "mesh_face")

FreshRun(ps, counter, used) ==
    \A i \in DOMAIN ps :
       /\ ps[i].ids = <<counter + (i - 1)>>
       /\ ps[i].ids[1] \notin used

(***************************************************************************)
(* C3, amended.  Every emission of a shade-mesh face, also of a face of a  *)
(* mesh emitted before in the session, is given the current value of the   *)
(* counter, which no element of the session was given before, and the      *)
(* counter advances by one per face (unless the emission ends with the     *)
(* reset the caller asked for).                                            *)
(***************************************************************************)
C3_EveryEmissionAllocates ==
    [][ /\ (pc = "idle" /\ pc' = "idle" /\ result' = "planes") =>
              /\ FreshRun(planes', HANDLE_COUNTER, SessionHandles)
              /\ HANDLE_COUNTER' \in {1, HANDLE_COUNTER + Len(planes')}
              /\ HANDLE_COUNTER' = 1 \/ Len(session') = Len(session) + Len(planes')
        /\ (pc = "shading" /\ pc' = "finalize") =>
              /\ FreshRun(MeshPlanes(doc'.planes), HANDLE_COUNTER, SessionHandles)
              /\ HANDLE_COUNTER' = HANDLE_COUNTER + Len(MeshPlanes(doc'.planes))
      ]_vars

C3_Witness ==
    \E i, j \in DOMAIN session :
       /\ i < j
       /\ session[i].mesh = session[j].mesh
       /\ session[i].face = session[j].face
       /\ session[i].handle # session[j].handle

(***************************************************************************)
(* C4.  The counter decreases only where it is set to a base (line 168 of  *)
(* a translation, the resets of lines 88 and 211); the handles taken from  *)
(* it since then are consecutive, each the value the counter had, start at *)
(* the base or after it, and end one below the counter.                    *)
(***************************************************************************)
SessionConsecutive(log, counter, base) ==
    /\ \A i \in DOMAIN log : i > 1 => log[i].handle = log[i - 1].handle + 1
    /\ log # <<>> => log[1].handle >= base /\ log[Len(log)].handle = counter - 1

C4_CounterOnlyIncreases ==
    [][ /\ HANDLE_COUNTER' < HANDLE_COUNTER => (pc = "handles" \/ HANDLE_COUNTER' = 1)
        /\ SessionConsecutive(session', HANDLE_COUNTER',
                              IF pc' \in {"blocks", "remap", "shading", "finalize"}
                              THEN Len(block_rooms') + 2 ELSE 1)
      ]_vars

C4_Witness ==
    /\ pc = "finalize"
    /\ counterAtCall > 1
    /\ Len(session) >= 2
    /\ HANDLE_COUNTER = session[Len(session)].handle + 1

(***************************************************************************)
(* C5.  The handles a call assigns when it is the first call made.         *)
(***************************************************************************)
StoriedRooms(m) ==
    IF ~HasStories(m) /\ Len(m.rooms) # 0 THEN AssignStoriesByFloorHeight(m).rooms ELSE m.rooms

BlocksOf(m) ==
    LET rooms == StoriedRooms(m)
        by_story == GroupByStory(rooms)
    IN AllBlocks(rooms, by_story[1], by_story[2], 1)[1]

FirstCallHandles(m) ==
    LET blocks == BlocksOf(m)
        base == Len(blocks) + 2
        room(r) == <<base + RoomOffset(m, r)>>
                   \o [k \in DOMAIN m.rooms[r].faces |-> base + RoomOffset(m, r) + k]
        block(b) == <<b + 1>> \o Flatten([z \in DOMAIN blocks[b] |-> room(blocks[b][z])])
        shade(s) == [h \in 1..(1 + m.shades[s].holes) |-> base + NumRoomObjects(m) + (s - 1)]
        n_mesh_faces == SumSeq([j \in DOMAIN m.shade_meshes |-> m.shade_meshes[j].nfaces])
    IN <<1>> \o Flatten([b \in DOMAIN blocks |-> block(b)])
            \o Flatten([s \in DOMAIN m.shades |-> shade(s)])
            \o [i \in 1..n_mesh_faces |-> base + NumObjects(m) + (i - 1)]

Writing == pc \in {"blocks", "remap", "shading", "finalize"}

ZoneAndSurfaceHandles(blocks) ==
    UNION {UNION {Range(ZoneHandleSeq(blocks[b].zones[z])) : z \in DOMAIN blocks[b].zones}
             : b \in DOMAIN blocks}

ObjectIds(m) ==
    {m.rooms[r].identifier : r \in DOMAIN m.rooms}
    \cup {m.rooms[p[1]].faces[p[2]].identifier : p \in FacePlaces(m)}
    \cup {m.shades[i].identifier : i \in DOMAIN m.shades}
    \cup {m.shade_meshes[j].identifier : j \in DOMAIN m.shade_meshes}

C7_ReservedHandles ==
    /\ \A b \in DOMAIN doc.blocks : doc.blocks[b].handle = (b - 1) + 2
    /\ (Writing \/ Returned) =>
          LET N == IF Writing THEN Len(block_rooms) ELSE Len(doc.blocks)
          IN /\ Len(doc.blocks) <= N
             /\ \A h \in ZoneAndSurfaceHandles(doc.blocks) : h >= N + 2
             /\ \A h \in Range(PlaneHandleSeq(doc.planes)) : h >= N + 2
    /\ Writing =>
          LET N == Len(block_rooms)
              ids == ObjectIds(heap[model])
          IN /\ ids = (N + 2)..(N + 1 + Cardinality(ids))
             /\ HANDLE_COUNTER >= N + 2 + Cardinality(ids)
             /\ \A h \in SessionHandles : h >= N + 2

C7_Witness ==
    /\ Returned
    /\ Len(doc.blocks) = 2
    /\ doc.blocks[2].handle = 3
    /\ 4 \in ZoneAndSurfaceHandles(doc.blocks)
    /\ \E i \in DOMAIN doc.planes : doc.planes[i].kind = "mesh_face"
    /\ \E i \in DOMAIN doc.planes : doc.planes[i].kind = "shade"

(***************************************************************************)
(* C8.  No step of a translation, whether it ends by returning or by       *)
(* raising, changes the caller's model.                                    *)
(***************************************************************************)
C8_CallerModelUntouched == [][heap'[1] = heap[1]]_vars

C8_Witness ==
    /\ pc = "finalize"
    /\ heap[1] = snapshot
    /\ heap[model].units # heap[1].units
    /\ heap[model].length # heap[1].length
    /\ \E r \in DOMAIN heap[1].rooms :
          /\ heap[model].rooms[r].identifier # heap[1].rooms[r].identifier
          /\ heap[model].rooms[r].user_data # heap[1].rooms[r].user_data
          /\ heap[model].rooms[r].faces[1].dsb_face_i # heap[1].rooms[r].faces[1].dsb_face_i

(***************************************************************************)
(* C9.  As claimed: after the classification the type of a face is         *)
(* roof/ceiling below 60 degrees, floor from 130 degrees on, and wall      *)
(* otherwise.                                                              *)
(***************************************************************************)
Classified == pc \in {"group", "handles", "blocks", "remap", "shading", "finalize"}

C9_RoleByAngleAlone ==
    Classified =>
       \A p \in FacePlaces(heap[model]) :
          LET f == heap[model].rooms[p[1]].faces[p[2]]
          IN f.type = IF f.angle < 60 THEN "roof_ceiling"
                      ELSE IF f.angle >= 130 THEN "floor" ELSE "wall"

(***************************************************************************)
(* C9, amended.  After the classification the type of a face is            *)
(* roof/ceiling below 60 degrees, floor from 130 degrees on, and the type  *)
(* the face had in the caller's model otherwise.                           *)
(***************************************************************************)
C9_RoleByAngleOrKept ==
    Classified =>
       \A p \in FacePlaces(heap[model]) :
          LET f == heap[model].rooms[p[1]].faces[p[2]]
              before == snapshot.rooms[p[1]].faces[p[2]]
          IN /\ f.angle = before.angle
             /\ f.type = IF f.angle < 60 THEN "roof_ceiling"
                         ELSE IF f.angle >= 130 THEN "floor" ELSE before.type

C9_Witness ==
    /\ pc = "group"
    /\ \E p \in FacePlaces(heap[model]) :
          LET f == heap[model].rooms[p[1]].faces[p[2]]
          IN f.angle >= 60 /\ f.angle < 130 /\ f.type = "floor"
    /\ \E p \in FacePlaces(heap[model]) :
          LET f == heap[model].rooms[p[1]].faces[p[2]]
          IN f.angle < 60 /\ f.type = "roof_ceiling"
                /\ snapshot.rooms[p[1]].faces[p[2]].type = "floor"

(***************************************************************************)
(* C10.  When the rooms are grouped: a story with one connected group has  *)
(* one block, named after the story, with the rooms of the story; a story  *)
(* with N > 1 groups has N blocks, the k-th of them named '<story> <k>'    *)
(* and holding the k-th group; names and room groups have the same length. *)
(***************************************************************************)
BlocksOfStory(rooms, story) ==
    SelectSeq([b \in DOMAIN block_rooms |-> b],
              LAMBDA b : \A i \in DOMAIN block_rooms[b] : rooms[block_rooms[b][i]].story = story)

C10_BlockNaming ==
    pc = "handles" =>
       LET rooms == heap[model].rooms
       IN /\ Len(block_names) = Len(block_rooms)
          /\ \A b \in DOMAIN block_rooms : block_rooms[b] # <<>>
          /\ \A story \in {rooms[r].story : r \in DOMAIN rooms} :
                LET flr == SelectSeq(Indices(rooms), LAMBDA r : rooms[r].story = story)
                    groups == GroupByAdjacency(rooms, flr)
                    at == BlocksOfStory(rooms, story)
                IN /\ Len(at) = Len(groups)
                   /\ Len(groups) = 1 =>
                         /\ block_names[at[1]] = <<story>>
                         /\ block_rooms[at[1]] = flr
                   /\ Len(groups) > 1 =>
                         \A k \in 1..Len(groups) :
                            /\ block_names[at[k]] = <<story, " ", Str(k)>>
                            /\ block_rooms[at[k]] = groups[k]

C10_Witness ==
    /\ pc = "handles"
    /\ block_names = <<(<<"A", " ", "1">>), (<<"A", " ", "2">>)>>
    /\ block_rooms = <<(<<1>>), (<<2>>)>>

(***************************************************************************)
(* C11.  Once the rooms are grouped, every room of the translated model is *)
(* in exactly one block, at exactly one position; the rooms of a block are *)
(* of one story; and there are as many blocks as there are connected       *)
(* groups of rooms of the same story, all stories taken together.          *)
(***************************************************************************)
Grouped == pc \in {"handles", "blocks", "remap", "shading", "finalize"}

BlockPlaces == UNION {{<<b, i>> : i \in DOMAIN block_rooms[b]} : b \in DOMAIN block_rooms}

SameStory(rooms, r) == {q \in DOMAIN rooms : rooms[q].story = rooms[r].story}

\* the connected groups of the rooms, story by story, as sets of rooms
ConnectedGroups(rooms) == {Connected(rooms, {r}, SameStory(rooms, r)) : r \in DOMAIN rooms}

C11_GroupingPartitions ==
    Grouped =>
       LET rooms == heap[model].rooms
       IN /\ \A r \in DOMAIN rooms :
                Cardinality({p \in BlockPlaces : block_rooms[p[1]][p[2]] = r}) = 1
          /\ \A p \in BlockPlaces : block_rooms[p[1]][p[2]] \in DOMAIN rooms
          /\ \A b \in DOMAIN block_rooms :
                \A i, j \in DOMAIN block_rooms[b] :
                   rooms[block_rooms[b][i]].story = rooms[block_rooms[b][j]].story
          /\ Len(block_rooms) = Cardinality(ConnectedGroups(rooms))

C11_Witness ==
    /\ pc = "handles"
    /\ block_rooms = <<(<<1>>), (<<2>>)>>
    /\ AdjacentRooms(heap[model].rooms, 1, 2)
    /\ heap[model].rooms[1].story # heap[model].rooms[2].story

(***************************************************************************)
(* C12.  A model for which unit conversion, the removal of degenerate      *)
(* geometry, story assignment or face classification fails: its            *)
(* translation never gets past these steps and never returns; it ends with *)
(* an error raised to the caller, and no document, not even a partial      *)
(* one, is handed back.                                                    *)
(***************************************************************************)
Fails(m) ==
    \/ m.units # "Meters" /\ m.fault = "units"
    \/ m.degenerate
    \/ m.fault = "stories" /\ m.rooms # <<>> /\ \A r \in DOMAIN m.rooms : m.rooms[r].story = NoStory
    \/ m.fault = "faces" /\ \E r \in DOMAIN m.rooms : m.rooms[r].faces # <<>>

C12_FailureAborts ==
    /\ result = "raised" =>
          /\ pc = "idle"
          /\ Fails(snapshot)
          /\ error # NoError
          /\ doc = EmptyDoc
    /\ Translating /\ Fails(snapshot) => pc = "prepare" /\ doc = EmptyDoc
    /\ Returned => ~Fails(snapshot)

C12_Witness ==
    /\ pc = "idle"
    /\ result = "raised"
    /\ snapshot.fault = "faces"
    /\ snapshot.units = "Feet"
    /\ error = HostError("face.type")
    /\ doc = EmptyDoc

(***************************************************************************)
(* C13.  As claimed: the error raised when the removal of degenerate       *)
(* geometry fails names the tolerance 0.01 and the units the caller's      *)
(* model declares.                                                         *)
(***************************************************************************)
DegenerateRemovalFailed ==
    pc = "idle" /\ result = "raised" /\ snapshot.degenerate /\ ~ConvertFails(snapshot)

C13_ErrorNamesToleranceAndUnits ==
    DegenerateRemovalFailed =>
       /\ Tolerance \in Range(error)
       /\ snapshot.units \in Range(error)

(***************************************************************************)
(* C13, amended.  The error raised when the removal of degenerate geometry *)
(* fails names the units the caller's model declares, not the units after  *)
(* conversion, and does not name the tolerance.                            *)
(***************************************************************************)
C13_ErrorNamesDeclaredUnits ==
    DegenerateRemovalFailed =>
       /\ Len(error) = 3
       /\ error[2] = snapshot.units
       /\ Range(error) \cap Units = {snapshot.units}
       /\ Tolerance \notin Range(error)

C13_Witness ==
    /\ DegenerateRemovalFailed
    /\ snapshot.units = "Feet"
    /\ snapshot.rooms # <<>>
    /\ error[2] = "Feet"

(***************************************************************************)
(* C14.  Until every block is emitted the blocks of the document are as    *)
(* the emitter wrote them; when the remap starts every block is in the     *)
(* document and every face of the model is in the face index map; after    *)
(* the remap an adjacency that named a face of the model, in a block       *)
(* emitted earlier or later than its own, carries the index of that face   *)
(* and its zone handle, and is not cleared.                                *)
(***************************************************************************)
FaceAt(m, p) == m.rooms[p[1]].faces[p[2]]

FaceIds(m) == {FaceAt(m, p).identifier : p \in FacePlaces(m)}

FinalIndex(m, id) ==
    FaceAt(m, CHOOSE p \in FacePlaces(m) : FaceAt(m, p).identifier = id).dsb_face_i

C14_RemapAfterAllBlocks ==
    /\ pc \in {"blocks", "remap"} =>
          \A b \in DOMAIN doc.blocks :
             doc.blocks[b] = RoomGroupToXmlBlock(heap[model], block_rooms[b], b + 1,
                                                 block_names[b])
    /\ pc = "remap" =>
          /\ Len(doc.blocks) = Len(block_rooms)
          /\ FaceIds(heap[model]) \subseteq DOMAIN f_index_map
    /\ pc \in {"shading", "finalize"} =>
          \A p \in AdjacencyPlaces(tentative) :
             LET before == AdjacencyAt(tentative, p)
                 after == AdjacencyAt(doc.blocks, p)
             IN before.surfaceIndex \in FaceIds(heap[model]) =>
                   /\ after.surfaceIndex = FinalIndex(heap[model], before.surfaceIndex)
                   /\ after.surfaceIndex # Sentinel
                   /\ after.zoneHandle = before.zoneHandle

C14_Witness ==
    /\ pc = "finalize"
    /\ Len(doc.blocks) = 2
    /\ \E p, q \in AdjacencyPlaces(tentative) :
          /\ p[1] = 1
          /\ q[1] = 2
          /\ AdjacencyAt(tentative, p).surfaceIndex \in SurfaceHandles(<<tentative[2]>>)
          /\ AdjacencyAt(tentative, q).surfaceIndex \in SurfaceHandles(<<tentative[1]>>)
          /\ AdjacencyAt(doc.blocks, p).surfaceIndex = 0
          /\ AdjacencyAt(doc.blocks, q).surfaceIndex = 0

(***************************************************************************)
(* C15.  From the end of the handle assignment to the emission of the      *)
(* shading the counter stays where the assignment left it, one after the   *)
(* last identifier; the faces of the shade meshes then take consecutive    *)
(* handles from there, a mesh going on where the mesh before it ended, and *)
(* the counter ends after the last of them.  After a shade-mesh emission   *)
(* called on its own the counter is at its base when a reset was asked     *)
(* for, and otherwise after the handles the emission took.                 *)
(***************************************************************************)
CounterAfterBlocks == Len(block_rooms) + 2 + NumObjects(heap[model])

C15_CounterRunsOnThroughShading ==
    /\ pc \in {"blocks", "remap", "shading"} =>
          /\ HANDLE_COUNTER = CounterAfterBlocks
          /\ session = <<>>
    /\ pc = "finalize" =>
          /\ Len(session) = SumSeq([j \in DOMAIN heap[model].shade_meshes |->
                                      heap[model].shade_meshes[j].nfaces])
          /\ Len(MeshPlanes(doc.planes)) = Len(session)
          /\ \A i \in DOMAIN session :
                /\ session[i].handle = CounterAfterBlocks + (i - 1)
                /\ MeshPlanes(doc.planes)[i].ids = <<session[i].handle>>
          /\ HANDLE_COUNTER = CounterAfterBlocks + Len(session)
          /\ ~reset_asked
    /\ (pc = "idle" /\ result = "planes") =>
          HANDLE_COUNTER = IF reset_asked THEN 1 ELSE counterAtCall + Len(planes)

C15_Witness ==
    /\ pc = "finalize"
    /\ Len(doc.blocks) > 0
    /\ \E i \in DOMAIN session :
          /\ i + 1 \in DOMAIN session
          /\ session[i].mesh # session[i + 1].mesh
          /\ session[i + 1].handle = session[i].handle + 1
          /\ HANDLE_COUNTER > session[i + 1].handle

(***************************************************************************)
(* C16.  As claimed, for calls whose steps interleave: the document a      *)
(* translation returns gives every element (the site, a block, a zone, a   *)
(* surface, a plane) a handle no other element of the document has, and    *)
(* its handles are those the translation assigns when it runs alone.       *)
(***************************************************************************)
ElementHandleSeq(d) ==
    <<d.site>> \o Flatten([b \in DOMAIN d.blocks |-> BlockHandleSeq(d.blocks[b])])
               \o [i \in DOMAIN d.planes |-> d.planes[i].ids[1]]

C16_SessionsIsolated ==
    Returned =>
       /\ Distinct(ElementHandleSeq(doc))
       /\ DocHandleSeq(doc) = FirstCallHandles(snapshot)

(***************************************************************************)
(* C17.  On a SolidMaterial, a CavityMaterial and a ComprehensiveCondition *)
(* alike: the assignment of a valid value succeeds exactly when the object *)
(* is unlocked at that moment, and then the object has the value; on a     *)
(* locked object it fails with AttributeError and leaves the object as it  *)
(* was; lock() leaves the object locked and unlock() unlocked, so that     *)
(* after unlock() assignments succeed again.                               *)
(***************************************************************************)
C17_LockLifecycle ==
    /\ outcome.call = "set" /\ outcome.value \in ValidValues(outcome.object) =>
          /\ outcome.raised = "" <=> ~outcome.before.locked
          /\ outcome.raised = "" => objects[outcome.object].value = outcome.value
          /\ outcome.raised # "" =>
                /\ outcome.raised = "AttributeError"
                /\ objects[outcome.object] = outcome.before
          /\ objects[outcome.object].locked = outcome.before.locked
    /\ outcome.call = "lock" => objects[outcome.object].locked
    /\ outcome.call = "unlock" => ~objects[outcome.object].locked
    /\ outcome.call \in {"lock", "unlock"} =>
          objects[outcome.object].value = outcome.before.value

C17_Witness ==
    /\ outcome.call = "set"
    /\ outcome.object = "nfrc_ext"
    /\ outcome.raised = "AttributeError"
    /\ objects["air_gap"].value = "NFRC"
    /\ ~objects["air_gap"].locked
    /\ objects["concrete"].locked
    /\ objects["concrete"].value = 700

(***************************************************************************)
(* C18.  The assignment of a material to a shape leaves the material       *)
(* locked; a locked object is unlocked by unlock() on that object and by   *)
(* nothing else; and no call changes the value of an object that is        *)
(* locked.  So a material a shape refers to is changed only after an       *)
(* explicit unlock().                                                      *)
(***************************************************************************)
C18_AssignedMaterialLocked ==
    [][ /\ (outcome'.call = "material" /\ outcome'.raised = "" /\ outcome'.value # None) =>
              /\ objects'[outcome'.value].locked
              /\ shape_material'[outcome'.object] = outcome'.value
        /\ \A o \in Objects :
              /\ (objects[o].locked /\ ~objects'[o].locked) =>
                    outcome'.call = "unlock" /\ outcome'.object = o
              /\ objects[o].locked => objects'[o].value = objects[o].value
      ]_vars

C18_Witness ==
    /\ shape_material[1] = "concrete"
    /\ shape_material[2] = "concrete"
    /\ outcome.call = "set"
    /\ outcome.object = "concrete"
    /\ outcome.raised = "AttributeError"
    /\ objects["concrete"] = [locked |-> TRUE, value |-> 600]
    /\ ~objects["insulation"].locked

(***************************************************************************)
(* C19.  As claimed: for a ModelExposure whose cross section is one its    *)
(* model type allows (or none), from_therm_xml of the element to_therm_xml *)
(* returns for it (no model plane given) succeeds and returns an object    *)
(* equal to it.                                                            *)
(***************************************************************************)
KeyOfProperties(obj) == <<obj.model_type, CrossSectionType(obj), obj.gravity_orientation,
                          obj.wind_orientation>>

\* lines 363-375: __key and __eq__
Key(obj) == <<obj.model_type, obj.cross_section_type, obj.gravity_orientation,
              obj.wind_orientation>>

Equal(a, b) == Key(a) = Key(b)

AllowedSections(model_type) ==
    IF model_type = "Window" THEN Range(WINDOW_SECTIONS)
    ELSE IF model_type \in {"Opaque Wall", "Opaque Roof"} THEN Range(OPAQUE_SECTIONS)
    ELSE Range(OTHER_SECTIONS)

ValidExposure(obj) ==
    /\ obj.model_type \in Range(MODEL_TYPES)
    /\ obj.cross_section_type \in AllowedSections(obj.model_type) \cup {None}
    /\ obj.gravity_orientation \in Range(GRAVITY_ORIENTATIONS) \cup {None}
    /\ obj.wind_orientation \in 0..360

RoundTripDone ==
    /\ parsed.call = "from_therm_xml"
    /\ exposure_call.call = "to_therm_xml"
    /\ ~exposure_call.value.given

C19_XmlRoundTrip ==
    (RoundTripDone /\ ValidExposure(exposure)) =>
       /\ parsed.raised = ""
       /\ Equal(parsed.obj, exposure)

(***************************************************************************)
(* C20.  As claimed: in every state of a ModelExposure, whatever           *)
(* assignments were accepted or rejected before, the cross section the     *)
(* object reports is one of the sections of its model type.                *)
(***************************************************************************)
C20_CrossSectionAllowed ==
    CrossSectionType(exposure) \in AllowedSections(exposure.model_type)

(***************************************************************************)
(* C21.  While the cross section slot of a ModelExposure is None, the      *)
(* cross section it reports is the first entry of the list of its model    *)
(* type, and an assignment of a model type (a key in any case, or None)    *)
(* made while the slot is None raises nothing and stores that model type.  *)
(***************************************************************************)
FirstSection(model_type) ==
    IF model_type = "Window" THEN WINDOW_SECTIONS[1]
    ELSE IF model_type \in {"Opaque Wall", "Opaque Roof"} THEN OPAQUE_SECTIONS[1]
    ELSE OTHER_SECTIONS[1]

ModelTypeAssignedWithoutSection ==
    /\ exposure_call.call = "model_type"
    /\ exposure_call.before.cross_section_type = None
    /\ \/ exposure_call.value = None
       \/ Matches(exposure_call.value, MODEL_TYPES) # {}

C21_DefaultCrossSection ==
    /\ exposure.cross_section_type = None =>
          CrossSectionType(exposure) = FirstSection(exposure.model_type)
    /\ ModelTypeAssignedWithoutSection =>
          /\ exposure_call.raised = ""
          /\ exposure.cross_section_type = None
          /\ exposure.model_type =
                IF exposure_call.value = None THEN "Other"
                ELSE FirstMatch(exposure_call.value, MODEL_TYPES)

C21_Witness ==
    /\ ModelTypeAssignedWithoutSection
    /\ exposure_call.before.model_type = "Window"
    /\ exposure_call.value = "Opaque Roof"
    /\ CrossSectionType(exposure_call.before) = "Sill"
    /\ CrossSectionType(exposure) = "Sill Plate"

(***************************************************************************)
(* C22.  As claimed: duplicating the therm properties of a shape succeeds  *)
(* and gives properties hosted by the new host (the same host when none is *)
(* given) whose material equals the original's.                            *)
(***************************************************************************)
Duplicated == outcome.call = "duplicate"

C22_DuplicateKeepsMaterial ==
    Duplicated =>
       /\ outcome.raised = ""
       /\ outcome.host = IF outcome.value # NoHost THEN outcome.value ELSE outcome.object
       /\ Material(outcome._material) = Material(outcome.before)

(***************************************************************************)
(* C23.  The material a shape's getter returns is the generic concrete     *)
(* as constructed; a successful assignment makes it the value assigned,    *)
(* or the generic concrete when the value is None; a rejected assignment   *)
(* and every other call leave it as it was.                                *)
(***************************************************************************)
AssignedTo(s) == outcome.call = "material" /\ outcome.object = s /\ outcome.raised = ""

C23_GetterFollowsAssignments ==
    /\ \A s \in 1..MaxShapes : Material(shape_material[s]) = generic_concrete
    /\ [][\A s \in 1..MaxShapes :
             IF AssignedTo(s)'
             THEN Material(shape_material[s])' =
                     IF outcome'.value = None THEN generic_concrete ELSE outcome'.value
             ELSE Material(shape_material[s])' = Material(shape_material[s])]_vars

\* insulation was assigned, then None: the getter is back at generic concrete
C23_Witness ==
    /\ AssignedTo(1)
    /\ outcome.value = None
    /\ outcome.before = "insulation"
    /\ Material(shape_material[1]) = generic_concrete
    /\ Material(shape_material[2]) = "concrete"

(***************************************************************************)
(* C24.  As claimed: assigning a cavity material to a shape raises nothing *)
(* and the getter then returns that cavity material.                       *)
(***************************************************************************)
CavityAssigned ==
    /\ outcome.call = "material"
    /\ outcome.value # None
    /\ ClassOf(outcome.value) = "CavityMaterial"

C24_CavityMaterialAccepted ==
    CavityAssigned =>
       /\ outcome.raised = ""
       /\ Material(shape_material[outcome.object]) = outcome.value

(***************************************************************************)
(* C25.  As claimed: a call of run_model that ran the solver returns the   *)
(* path of the THMZ file when the therm.log of the directory contains      *)
(* 'Calculation complete.' and in every other case raises a ValueError     *)
(* that carries the text of the log.                                       *)
(***************************************************************************)
\* the last call of run_model ran the solver and has ended
RunFinished ==
    /\ run_pc = "idle"
    /\ run_result.call = "run_model"
    /\ run_result.run = runs
    /\ solver = "exited"

LogComplete == therm_log.exists /\ Complete \in Range(therm_log.text)

Carries(message, text) ==
    /\ Len(message) >= Len(text)
    /\ SubSeq(message, Len(message) - Len(text) + 1, Len(message)) = text

C25_PathIffLogComplete ==
    RunFinished =>
       IF LogComplete
       THEN run_result.raised = "" /\ run_result.path = "model.thmz"
       ELSE run_result.raised = "ValueError"

(***************************************************************************)
(* C25, corrected.  A call of run_model that ran the solver returns the    *)
(* path of the THMZ file if and only if the therm.log it reads contains    *)
(* 'Calculation complete.'; when the log exists without that text it       *)
(* raises a ValueError that carries the text of the log; when there is no  *)
(* therm.log it raises the error of open, an IOError, which carries no log *)
(* text.  A call that raised an AssertionError never started a solver.     *)
(***************************************************************************)
C25_PathIffLogRead ==
    /\ RunFinished =>
          /\ run_result.raised = "" <=> LogComplete
          /\ run_result.raised = "" => run_result.path = "model.thmz"
          /\ run_result.raised = "ValueError" <=> therm_log.exists /\ ~LogComplete
          /\ run_result.raised = "ValueError" =>
                Carries(run_result.message, therm_log.text)
          /\ run_result.raised = "IOError" <=> ~therm_log.exists
    /\ (run_pc = "idle" /\ run_result.call = "run_model"
          /\ run_result.raised = "AssertionError") => solver = "none"

\* the solver exited without writing a log and the directory holds none
C25_Witness ==
    /\ RunFinished
    /\ ~therm_log.exists
    /\ run_result.raised = "IOError"

(***************************************************************************)
(* C26.  Whenever run_model reads the log, and from then on until the      *)
(* next call, the solver the call started has terminated, and the call     *)
(* started a solver exactly once; this in each of the three modes of       *)
(* run_thmz.                                                               *)
(***************************************************************************)
C26_SolverAwaited ==
    /\ (run_pc = "read_log" \/ RunFinished) => solver = "exited" /\ solver_starts = 1
    /\ run_pc \in {"os.system", "communicate"} => solver_starts = 1
    /\ run_pc = "os.system" <=>
          /\ run_pc \in {"os.system", "communicate"}
          /\ ~run_mode.silent /\ run_mode.ascii

\* not silent with a command that is not ASCII: the solver has written its
\* log and exited, and run_model is about to read the log
C26_Witness ==
    /\ run_pc = "read_log"
    /\ ~run_mode.silent /\ ~run_mode.ascii
    /\ therm_log.exists /\ therm_log.run = runs
    /\ solver_starts = 1

(***************************************************************************)
(* C30.  As claimed: a call of run_model returns normally only if the      *)
(* solver that very call started wrote 'Calculation complete.' to the log. *)
(***************************************************************************)
C30_NoStaleSuccess ==
    (run_pc = "idle" /\ run_result.call = "run_model" /\ run_result.raised = "") =>
       /\ run_result.log.run = run_result.run
       /\ Complete \in Range(run_result.log.text)

(***************************************************************************)
(* C27.  The adjacency remap leaves the blocks as they were emitted but    *)
(* for the adjacencies it must change: the places of the adjacencies are   *)
(* the same, the handles of the blocks, zones and surfaces are the same,   *)
(* an adjacency whose surfaceIndex was -1 is unchanged, and an adjacency   *)
(* whose surfaceIndex is a key of the face index map has its surfaceIndex  *)
(* replaced by the index (the map lives until the translation returns)     *)
(* and its zoneHandle unchanged.                                           *)
(***************************************************************************)
C27_RemapFrame ==
    AfterRemap =>
       /\ Len(doc.blocks) = Len(tentative)
       /\ \A b \in DOMAIN tentative :
             BlockHandleSeq(doc.blocks[b]) = BlockHandleSeq(tentative[b])
       /\ AdjacencyPlaces(doc.blocks) = AdjacencyPlaces(tentative)
       /\ \A p \in AdjacencyPlaces(tentative) :
             LET before == AdjacencyAt(tentative, p)
                 after == AdjacencyAt(doc.blocks, p)
             IN /\ before.surfaceIndex = Sentinel => after = before
                /\ before.surfaceIndex \in SurfaceHandles(tentative) =>
                      /\ after.zoneHandle = before.zoneHandle
                      /\ after.surfaceIndex # Sentinel
                      /\ pc \in {"shading", "finalize"} =>
                            after.surfaceIndex = f_index_map[before.surfaceIndex]

\* a returned document with an adjacency that resolved to another value
\* than it had, with its zone kept, next to one that was -1 from the start
C27_Witness ==
    /\ pc = "finalize"
    /\ \E p, q \in AdjacencyPlaces(tentative) :
          /\ AdjacencyAt(tentative, p).surfaceIndex \in SurfaceHandles(tentative)
          /\ AdjacencyAt(tentative, p).zoneHandle # Sentinel
          /\ AdjacencyAt(doc.blocks, p).surfaceIndex # AdjacencyAt(tentative, p).surfaceIndex
          /\ AdjacencyAt(doc.blocks, p).zoneHandle = AdjacencyAt(tentative, p).zoneHandle
          /\ AdjacencyAt(tentative, q).surfaceIndex = Sentinel
          /\ AdjacencyAt(doc.blocks, q) = AdjacencyAt(tentative, q)

(***************************************************************************)
(* C28.  As claimed: when an assignment to model_type, cross_section_type, *)
(* gravity_orientation or wind_orientation of a ModelExposure raises, the  *)
(* four slots have the values they had before the assignment.              *)
(***************************************************************************)
Setters == {"model_type", "cross_section_type", "gravity_orientation", "wind_orientation"}

Rejected == exposure_call.call \in Setters /\ exposure_call.raised # ""

C28_RejectedLeavesUnchanged == Rejected => exposure = exposure_call.before

(***************************************************************************)
(* C29.  As claimed: two ModelExposure objects compare equal if and only   *)
(* if their properties model_type, cross_section_type, gravity_orientation *)
(* and wind_orientation are pairwise equal, and equal objects have equal   *)
(* hashes.  The objects compared are the object before and after an        *)
(* assignment, the object and the one read back from its XML element, and  *)
(* the object and its copy.                                                *)
(***************************************************************************)
\* the four properties as their getters return them (lines 113-182)
Properties(obj) == <<obj.model_type, CrossSectionType(obj), obj.gravity_orientation,
                     obj.wind_orientation>>

IndexOf(value, keys) ==
    IF \E i \in DOMAIN keys : keys[i] = value
    THEN CHOOSE i \in DOMAIN keys : keys[i] = value
    ELSE 0

\* line 369: hash(self.__key()), a number computed from the tuple
Hash(obj) ==
    LET k == Key(obj)
    IN (IndexOf(k[1], MODEL_TYPES) + 5 * IndexOf(k[2], ALL_SECTIONS)
          + 3 * IndexOf(k[3], GRAVITY_ORIENTATIONS) + k[4]) % 64

\* lines 377-380: __copy__, the constructor called with the four slots
Copy(obj) ==
    ModelExposure(obj.model_type, obj.cross_section_type, obj.gravity_orientation,
                  obj.wind_orientation)

ComparedPairs ==
    (IF exposure_call.call \in Setters THEN {<<exposure_call.before, exposure>>} ELSE {})
    \cup (IF parsed.call = "from_therm_xml" /\ parsed.raised = ""
          THEN {<<exposure, parsed.obj>>} ELSE {})
    \cup (IF Copy(exposure).raised = "" THEN {<<exposure, Copy(exposure).obj>>} ELSE {})

C29_EqualityFollowsProperties ==
    \A pair \in ComparedPairs :
       /\ Equal(pair[1], pair[2]) <=> Properties(pair[1]) = Properties(pair[2])
       /\ Equal(pair[1], pair[2]) => Hash(pair[1]) = Hash(pair[2])

(***************************************************************************)
(* C29, corrected.  Two ModelExposure objects compare equal if and only if *)
(* their model_type, their stored cross section (None while none is set),  *)
(* their gravity_orientation and their wind_orientation are pairwise       *)
(* equal.  Equal objects have equal properties and equal hashes; objects   *)
(* with equal properties that are not equal differ in that one has no      *)
(* cross section set and the other has the default of the model type set.  *)
(***************************************************************************)
C29_EqualityFollowsSlots ==
    \A pair \in ComparedPairs :
       LET a == pair[1]
           b == pair[2]
       IN /\ Equal(a, b) <=>
                /\ a.model_type = b.model_type
                /\ a.cross_section_type = b.cross_section_type
                /\ a.gravity_orientation = b.gravity_orientation
                /\ a.wind_orientation = b.wind_orientation
          /\ Equal(a, b) => Properties(a) = Properties(b) /\ Hash(a) = Hash(b)
          /\ (Properties(a) = Properties(b) /\ ~Equal(a, b)) =>
                /\ a.cross_section_type # b.cross_section_type
                /\ None \in {a.cross_section_type, b.cross_section_type}
                /\ SECTION_MAP[a.model_type] \in {a.cross_section_type, b.cross_section_type}

\* a Window exposure without a cross section, and the same after 'Sill' was
\* assigned: the same properties, not equal
C29_Witness ==
    /\ exposure_call.call = "cross_section_type"
    /\ exposure_call.raised = ""
    /\ exposure_call.before.model_type = "Window"
    /\ exposure_call.before.cross_section_type = None
    /\ exposure.cross_section_type = "Sill"
    /\ Properties(exposure) = Properties(exposure_call.before)
    /\ ~Equal(exposure, exposure_call.before)
    /\ Equal(exposure, Copy(exposure).obj)

====
